---- MODULE Spec2Model ----
(***************************************************************************)
(* Resumable model downloads with integrity verification and quarantine    *)
(* (apps/web/src-tauri/src/downloads, apps/web/src-tauri/src/verification).*)
(*                                                                         *)
(* The registry (DownloadState), the spawned transfer tasks                *)
(* (download_file and the closure that wraps it), the files on disk and    *)
(* the events published on "download_progress" are the state.  Commands    *)
(* run on a multi-threaded runtime, so a task advances one file-system or  *)
(* stream operation at a time and the commands interleave with it.         *)
(***************************************************************************)
EXTENDS Integers, Sequences, FiniteSets, TLC

\* ------------------------------------------------------------------ bounds
\* start_download calls that register a download (direct or through resume)
MaxDownloads == 2
\* length in bytes of the file the server holds
FileLen == 2
\* largest chunk the response stream delivers at once
MaxChunk == 1
\* largest value of the wall clock (seconds, as in the quarantine timestamp)
MaxTime == 1
\* the longest expected hash passed to verify_integrity
MaxHashLen == 3
\* how far from the progress threshold the sizes of the hashed files lie (MiB)
SizeSpread == 2
\* the longest quarantine file name parsed, before its .gguf suffix
MaxNameLen == 10
\* the longest model id of a quarantined file
MaxIdLen == 3
\* the most files of the quarantine directory listed together
MaxDirFiles == 2
\* the width in bits of the megabyte counts of the storage check (u64 in the code)
WordBits == 4
\* the concurrent callers of the registry, and of generate
MaxCallers == 2
\* the most tokens a completion stream yields
MaxTokens == 2
\* the largest byte count update_progress is called with
MaxBytes == 1

\* ------------------------------------------------------------ value spaces
\* Option<T>: None or Some(x)
None == <<>>
Some(x) == <<x>>
IsSome(o) == o /= <<>>
Unwrap(o) == o[1]

Ids == 1..MaxDownloads
Callers == 1..MaxCallers
Models == {"phi"}
Url == "https://host/model.gguf"
TokenizerUrl == "https://host/tokenizer.json"

\* the bytes the server holds for Url
Content == [i \in 1..FileLen |-> i]

Min(a, b) == IF a < b THEN a ELSE b
Drop(s, n) == SubSeq(s, n + 1, Len(s))
Take(s, n) == SubSeq(s, 1, n)

\* --------------------------------------------------------------- digests
HexLower == <<"0", "1", "2", "3", "4", "5", "6", "7", "8", "9",
              "a", "b", "c", "d", "e", "f">>

\* char::to_lowercase / to_uppercase on the characters of a hex string
LowerChar(c) ==
    CASE c = "A" -> "a" [] c = "B" -> "b" [] c = "C" -> "c"
      [] c = "D" -> "d" [] c = "E" -> "e" [] c = "F" -> "f"
      [] OTHER -> c
UpperChar(c) ==
    CASE c = "a" -> "A" [] c = "b" -> "B" [] c = "c" -> "C"
      [] c = "d" -> "D" [] c = "e" -> "E" [] c = "f" -> "F"
      [] OTHER -> c

\* a lowercasing that keeps the case of every character
ToLowercaseKeepsCase(s) == s

\* str::to_lowercase, str::to_uppercase
ToLowercase(s) == [i \in 1..Len(s) |-> LowerChar(s[i])]
ToUppercase(s) == [i \in 1..Len(s) |-> UpperChar(s[i])]

\* Sha256 + format!("{:x}"): a lowercase hex string, one per file content
\* (the digest is collision free on the contents the model reaches).
Sha256Hex(bytes) ==
    <<HexLower[(Len(bytes) % 16) + 1]>>
      \o [i \in 1..Len(bytes) |-> HexLower[((bytes[i] + 9) % 16) + 1]]

\* a verifier that reports every file as verified without comparing
VerifyIntegrityNoCompare(bytes, expected_hash) ==
    LET computed_hash == Sha256Hex(bytes)
        expected_lower == ToLowercase(expected_hash)
    IN  [verified |-> TRUE,
         computed_hash |-> computed_hash,
         expected_hash |-> expected_lower,
         file_size |-> Len(bytes)]

\* verification::verify_integrity on a readable file holding `bytes`
VerifyIntegrity(bytes, expected_hash) ==
    LET computed_hash == Sha256Hex(bytes)
        expected_lower == ToLowercase(expected_hash)
    IN  [verified |-> computed_hash = expected_lower,
         computed_hash |-> computed_hash,
         expected_hash |-> expected_lower,
         file_size |-> Len(bytes)]

\* manager::verify_with_progress: below the threshold it is verify_integrity
\* (the files of the model are far below 500MB)
VerifyWithProgress(bytes, expected_hash, file_size) ==
    VerifyIntegrity(bytes, expected_hash)

\* the hashes a caller passes to start_download
GoodHash == Sha256Hex(Content)
BadHash == Sha256Hex(<<>>)
HashInputs == {None, Some(ToUppercase(GoodHash)), Some(BadHash)}

\* ------------------------------------------------------------------ state
VARIABLES
    downloads,     \* DownloadState.downloads: download_id -> Download
    cancel_token,  \* the watch channel of each download: its current value
    tasks,         \* the spawned transfer task of each download
    nextId,        \* the next fresh download id (Uuid::new_v4)
    dirs,          \* models whose directory models/{model_id} exists
    tokenizers,    \* models whose tokenizer.json exists
    part,          \* model_id -> Option<file> at models/{model_id}/model.gguf.part
    final,         \* model_id -> Option<file> at models/{model_id}/model.gguf
    quarantine,    \* quarantine file name -> file
    data,          \* file -> its bytes (a file is named by the task that created it)
    events,        \* download_id -> the download_progress events published for
                   \* it: the latest one, and all but the "downloading" ones
    reports,       \* the download_corrupted events published
    now,           \* the wall clock, in seconds
    reply,         \* what the command that just ran returns to its caller
    lock,          \* DownloadState.downloads: who holds the RwLock
    callers,       \* the calls of DownloadState's methods that are under way
    fcall,         \* the call under way of a function that keeps no state
                   \* (verifier, file name parser, storage check): its
                   \* arguments, its locals and what it returns
    inference      \* InferenceState (model, abort_flag, status) and the calls
                   \* of generate that are under way

vars == <<downloads, cancel_token, tasks, nextId, dirs, tokenizers, part, final,
          quarantine, data, events, reports, now, reply, lock, callers, fcall,
          inference>>

fsVars == <<dirs, tokenizers, part, final, quarantine, data>>

\* the lock of the registry and the calls of its methods: a command of the
\* download manager runs each method it calls to its end
regVars == <<lock, callers>>

\* ------------------------------------------------------------- registry
\* a call of a method of DownloadState: where it is (idle, wait, locked,
\* found, returned), the method and its arguments, and what it returned
IdleCaller ==
    [pc |-> "idle", op |-> "", id |-> 0, status |-> "", bytes |-> 0, result |-> {}]

\* DownloadState::add_download
AddDownload(reg, d) ==
    [i \in DOMAIN reg \cup {d.id} |-> IF i = d.id THEN d ELSE reg[i]]

\* DownloadState::get_download
GetDownload(reg, id) ==
    IF id \in DOMAIN reg THEN Some(reg[id]) ELSE None

\* an update_status that changes no record
UpdateStatusNoop(reg, id, status) == reg

\* DownloadState::update_status
UpdateStatus(reg, id, status) ==
    [i \in DOMAIN reg |-> IF i = id THEN [reg[i] EXCEPT !.status = status] ELSE reg[i]]

\* DownloadState::update_progress
UpdateProgress(reg, id, bytes, status) ==
    [i \in DOMAIN reg |->
        IF i = id THEN [reg[i] EXCEPT !.bytes_downloaded = bytes, !.status = status]
        ELSE reg[i]]

\* a removal that leaves the record in the registry
RemoveDownloadKeeps(reg, id) == reg

\* DownloadState::remove_download: the registry without id
RemoveDownload(reg, id) ==
    [i \in DOMAIN reg \ {id} |-> reg[i]]

\* Download::to_progress_event
StatusString(status) ==
    CASE status = "Queued" -> "queued"
      [] status = "Downloading" -> "downloading"
      [] status = "Paused" -> "paused"
      [] status = "Completed" -> "completed"
      [] status = "Failed" -> "failed"
      [] status = "Cancelled" -> "cancelled"
ToProgressEvent(d) ==
    [download_id |-> d.id, model_id |-> d.model_id,
     status |-> StatusString(d.status),
     bytes_downloaded |-> d.bytes_downloaded, total_bytes |-> d.total_bytes]

\* commands::get_download_progress
GetDownloadProgress(id) ==
    IF IsSome(GetDownload(downloads, id))
    THEN Some(ToProgressEvent(Unwrap(GetDownload(downloads, id))))
    ELSE None

\* ---------------------------------------------------------------- events
Event(id, model_id, status, bytes_downloaded, total_bytes) ==
    [download_id |-> id, model_id |-> model_id, status |-> status,
     bytes_downloaded |-> bytes_downloaded, total_bytes |-> total_bytes]

\* app.emit("download_progress", e): e is the latest event of e.download_id,
\* and every event other than a "downloading" one is kept in its log
Emit(ev, e) ==
    [ev EXCEPT ![e.download_id] =
        [last |-> Some(e),
         log |-> IF e.status = "downloading" THEN @.log ELSE Append(@.log, e)]]

\* ------------------------------------------------------------ file system
FileLength(o) == IF IsSome(o) THEN Len(data[Unwrap(o)]) ELSE 0

\* whether some path names the file
Linked(file, p, f, q) ==
    \/ \E m \in Models : p[m] = Some(file) \/ f[m] = Some(file)
    \/ \E n \in DOMAIN q : q[n] = file

\* the bytes of the files once the paths are (p, f, q): a file that no path
\* names any more can never be read again, so its bytes are not kept
Unlink(d, p, f, q) ==
    [i \in Ids |-> IF Linked(i, p, f, q) THEN d[i] ELSE <<>>]

\* the name {model_id}_{timestamp}.gguf.corrupted
QuarantineName(model_id, timestamp) == [model_id |-> model_id, timestamp |-> timestamp]

\* std::fs::rename into the quarantine directory (replaces a file of that name)
RenameInto(q, name, file) ==
    [n \in DOMAIN q \cup {name} |-> IF n = name THEN file ELSE q[n]]

\* ---------------------------------------------------------------- replies
\* what the command op returns to its caller: Ok or Err(error); id is the
\* download id it was called with, or the new id that start_download returns
Ok(op, id) == Some([op |-> op, id |-> id, ok |-> TRUE, error |-> ""])
Err(op, id, error) == Some([op |-> op, id |-> id, ok |-> FALSE, error |-> error])

\* ------------------------------------------------------------------ tasks
IdleTask ==
    [pc |-> "idle", model_id |-> "", offset |-> 0, bytes_downloaded |-> 0,
     total_bytes |-> 0, expected_hash |-> None, body |-> <<>>, chunk |-> <<>>,
     file |-> None, result |-> None]

\* a step of a task or of the environment: no caller is being answered
Internal == reply = None /\ reply' = None

\* a task that returned: its locals are dropped
Ended(outcome) == [IdleTask EXCEPT !.pc = outcome]

\* the task runs: its cancel_rx is alive
Live(id) == tasks[id].pc \notin {"idle", "ok", "err"}

\* start_download, lines 202-217: download_file returned Err and the spawned
\* closure publishes "failed" with the byte count it captured at the spawn
FailedEvent(id) ==
    Event(id, tasks[id].model_id, "failed", tasks[id].offset, tasks[id].total_bytes)

\* download_file returns Err(e) after it published ev: the closure publishes
\* "failed", the task ends and its cancel_rx is dropped with it
ReturnErr(id, ev) ==
    /\ tasks' = [tasks EXCEPT ![id] = Ended("err")]
    /\ events' = Emit(ev, FailedEvent(id))
    /\ cancel_token' = [cancel_token EXCEPT ![id] = FALSE]

\* DownloadState::new: no download, no file; ids names the downloads to come
FreshOver(ids) ==
    /\ downloads = [i \in {} |-> None]
    /\ cancel_token = [i \in ids |-> FALSE]
    /\ tasks = [i \in ids |-> IdleTask]
    /\ nextId = 1
    /\ dirs = {}
    /\ tokenizers = {}
    /\ part = [m \in Models |-> None]
    /\ final = [m \in Models |-> None]
    /\ quarantine = [n \in {} |-> None]
    /\ data = [i \in ids |-> <<>>]
    /\ events = [i \in ids |-> [last |-> None, log |-> <<>>]]
    /\ reports = {}
    /\ now = 0
    /\ reply = None
    /\ lock = [writer |-> None, readers |-> {}]
    /\ callers = [c \in Callers |-> IdleCaller]

Fresh == FreshOver(Ids)

\* a call of generate: where it is, the tokens its stream still holds, the
\* "inference:token" and "inference:complete" events it emitted, and whether
\* abort_inference ran since it reset the flag
IdleGenerate ==
    [pc |-> "idle", left |-> 0, tokens |-> 0, completes |-> 0, aborted |-> FALSE]

\* InferenceState::default
InferenceStateDefault ==
    [model |-> FALSE, abort_flag |-> FALSE, status |-> "Unloaded",
     calls |-> [g \in Callers |-> IdleGenerate]]

Init == Fresh /\ fcall = None /\ inference = InferenceStateDefault

\* ------------------------------------------------------- start_download
\* the error start_download returns for these outcomes of its environment
\* ("" when it returns Ok(download_id))
StartError(model_id, mkdirOk, tokOk, head) ==
    IF ~mkdirOk THEN "Failed to create model directory"
    ELSE IF model_id \notin tokenizers /\ ~tokOk THEN "Tokenizer download failed"
    ELSE IF head = "send_error" THEN "HEAD request failed"
    ELSE IF head = "no_length" THEN "Could not determine file size"
    ELSE ""

\* get_content_length: the HEAD request fails, or its response carries a
\* content-length header that parses, or none
HeadOutcomes == {"length", "send_error", "no_length"}

\* the record start_download registers
NewDownload(id, model_id, url, tokenizer_url, expected_hash) ==
    [id |-> id, model_id |-> model_id, url |-> url, tokenizer_url |-> tokenizer_url,
     bytes_downloaded |-> FileLength(part[model_id]),
     total_bytes |-> Len(Content),
     status |-> "Downloading",
     expected_hash |-> expected_hash]

\* the task start_download spawns for the record d
SpawnedTask(d) ==
    [IdleTask EXCEPT !.pc = "request", !.model_id = d.model_id,
                     !.offset = d.bytes_downloaded,
                     !.bytes_downloaded = d.bytes_downloaded,
                     !.total_bytes = d.total_bytes,
                     !.expected_hash = d.expected_hash]

\* a start_download that registers the record before it probes the size
StartDownloadRegistersFirst(reg, model_id, url, tokenizer_url, expected_hash, mkdirOk, tokOk, head) ==
    LET err == StartError(model_id, mkdirOk, tokOk, head)
        d == NewDownload(nextId, model_id, url, tokenizer_url, expected_hash)
    IN  /\ dirs' = IF mkdirOk THEN dirs \cup {model_id} ELSE dirs
        /\ tokenizers' = IF mkdirOk /\ tokOk THEN tokenizers \cup {model_id} ELSE tokenizers
        /\ downloads' = AddDownload(reg, d)
        /\ nextId' = nextId + 1
        /\ tasks' = IF err = "" THEN [tasks EXCEPT ![nextId] = SpawnedTask(d)] ELSE tasks
        /\ UNCHANGED <<cancel_token, part, final, quarantine, data, events, reports, now>>

\* manager::start_download, called on the registry reg
StartDownload(reg, model_id, url, tokenizer_url, expected_hash, mkdirOk, tokOk, head) ==
    LET err == StartError(model_id, mkdirOk, tokOk, head)
        d == NewDownload(nextId, model_id, url, tokenizer_url, expected_hash)
    IN  /\ dirs' = IF mkdirOk THEN dirs \cup {model_id} ELSE dirs
        /\ tokenizers' = IF mkdirOk /\ tokOk THEN tokenizers \cup {model_id} ELSE tokenizers
        /\ IF err = ""
           THEN /\ downloads' = AddDownload(reg, d)
                /\ tasks' = [tasks EXCEPT ![nextId] = SpawnedTask(d)]
                /\ nextId' = nextId + 1
           ELSE /\ downloads' = reg
                /\ UNCHANGED <<tasks, nextId>>
        /\ UNCHANGED <<cancel_token, part, final, quarantine, data, events, reports, now>>

\* commands::start_download
Start(model_id, expected_hash) ==
    /\ reply = None
    /\ nextId <= MaxDownloads
    /\ \E mkdirOk, tokOk \in BOOLEAN, head \in HeadOutcomes :
         /\ StartDownload(downloads, model_id, Url, TokenizerUrl, expected_hash,
                          mkdirOk, tokOk, head)
         /\ reply' = LET err == StartError(model_id, mkdirOk, tokOk, head) IN
                     IF err = "" THEN Ok("start", Some(nextId))
                     ELSE Err("start", None, err)
    /\ UNCHANGED <<regVars, fcall, inference>>

\* ---------------------------------------------------------- download_file
\* the body of the response: the whole file, or the file from the Range offset
ResponseBody(kind, offset) ==
    IF kind = "partial" THEN Drop(Content, offset) ELSE Content

\* download_file, lines 297-300: the Range header "bytes={bytes_downloaded}-"
\* of the request, or none
RangeHeader(bytes_downloaded) ==
    IF bytes_downloaded > 0 THEN Some(bytes_downloaded) ELSE None

\* the responses the server may give to the GET of a task with this offset:
\* a send error, an error status, 200 with the whole file (also when it
\* ignores the Range header), 206 with the file from the offset
Responses(offset) ==
    {"send_error", "http_error", "full"}
      \cup (IF IsSome(RangeHeader(offset)) /\ Unwrap(RangeHeader(offset)) < Len(Content)
            THEN {"partial"} ELSE {})

\* OpenOptions::new().create(true).append(true).open(part_path): the part
\* files afterwards (a missing file is created, named by the task id)
OpenAppend(p, model_id, id) ==
    IF IsSome(p[model_id]) THEN p ELSE [p EXCEPT ![model_id] = Some(id)]

\* a request that opens the part file before it looks at the status
TaskRequestOpensFirst(id) ==
    LET t == tasks[id] IN
    /\ t.pc = "request"
    /\ \E kind \in Responses(t.offset) :
         IF kind = "send_error" \/ t.model_id \notin dirs
         THEN /\ ReturnErr(id, events)
              /\ UNCHANGED part
         ELSE /\ part' = OpenAppend(part, t.model_id, id)
              /\ IF kind = "http_error"
                 THEN ReturnErr(id, events)
                 ELSE /\ tasks' = [tasks EXCEPT ![id] =
                                     [@ EXCEPT !.pc = "stream",
                                               !.file = part'[t.model_id],
                                               !.body = ResponseBody(kind, t.offset)]]
                      /\ UNCHANGED <<events, cancel_token>>
    /\ Internal
    /\ UNCHANGED <<downloads, nextId, dirs, tokenizers, final,
                   quarantine, data, reports, now>>
    /\ UNCHANGED <<regVars, fcall, inference>>

\* download_file, lines 296-323: the request, the status check and the open
TaskRequest(id) ==
    LET t == tasks[id] IN
    /\ t.pc = "request"
    /\ \E kind \in Responses(t.offset) :
         IF kind \in {"send_error", "http_error"} \/ t.model_id \notin dirs
         THEN /\ ReturnErr(id, events)
              /\ UNCHANGED part
         ELSE /\ part' = OpenAppend(part, t.model_id, id)
              /\ tasks' = [tasks EXCEPT ![id] =
                             [@ EXCEPT !.pc = "stream",
                                       !.file = part'[t.model_id],
                                       !.body = ResponseBody(kind, t.offset)]]
              /\ UNCHANGED <<events, cancel_token>>
    /\ Internal
    /\ UNCHANGED <<downloads, nextId, dirs, tokenizers, final,
                   quarantine, data, reports, now>>
    /\ UNCHANGED <<regVars, fcall, inference>>

\* the status of the terminal event of a download_file that returns Ok
SuccessStatus(expected_hash) ==
    IF IsSome(expected_hash) THEN "verified" ELSE "completed"

\* download_file, lines 325-332 and 372-393: stream.next() delivers a chunk
\* or an error, and the cancellation check comes first; or the stream is
\* exhausted, the file is synced and closed and "verifying" is published
TaskNext(id) ==
    LET t == tasks[id] IN
    /\ t.pc = "stream"
    /\ \/ /\ t.body /= <<>>
          /\ \E n \in 1..Min(MaxChunk, Len(t.body)), streamOk \in BOOLEAN :
               IF cancel_token[id] \/ ~streamOk
               THEN ReturnErr(id, events)
               ELSE /\ tasks' = [tasks EXCEPT ![id] =
                                   [@ EXCEPT !.pc = "write",
                                             !.chunk = Take(t.body, n),
                                             !.body = Drop(t.body, n)]]
                    /\ UNCHANGED <<events, cancel_token>>
       \/ /\ t.body = <<>>
          /\ \E syncOk \in BOOLEAN :
               IF ~syncOk
               THEN ReturnErr(id, events)
               ELSE /\ UNCHANGED cancel_token
                    /\ tasks' = [tasks EXCEPT ![id] =
                                   [@ EXCEPT !.pc = IF IsSome(t.expected_hash)
                                                    THEN "verify" ELSE "rename",
                                             !.file = None]]
                    /\ events' = IF IsSome(t.expected_hash)
                                 THEN Emit(events, Event(id, t.model_id, "verifying",
                                                         t.total_bytes, t.total_bytes))
                                 ELSE events
    /\ Internal
    /\ UNCHANGED <<downloads, nextId, fsVars, reports, now>>
    /\ UNCHANGED <<regVars, fcall, inference>>

\* a write through a handle opened to truncate: the chunk replaces the file
WriteAllTruncates(d, file, chunk) ==
    [d EXCEPT ![file] = chunk]

\* file.write_all(&chunk) through an append handle: the bytes go to the end of
\* the file, wherever it is now (and are lost with a file no path names)
WriteAll(d, file, chunk) ==
    IF Linked(file, part, final, quarantine)
    THEN [d EXCEPT ![file] = @ \o chunk]
    ELSE d

\* download_file, lines 334-369: write_all, the byte count and, when 100ms
\* have passed since the last one, a "downloading" event
TaskWrite(id) ==
    LET t == tasks[id]
        f == Unwrap(t.file)
    IN
    /\ t.pc = "write"
    /\ \/ \E interval \in BOOLEAN :
            /\ UNCHANGED cancel_token
            /\ data' = WriteAll(data, f, t.chunk)
            /\ tasks' = [tasks EXCEPT ![id] =
                           [@ EXCEPT !.pc = "stream", !.chunk = <<>>,
                                     !.bytes_downloaded = @ + Len(t.chunk)]]
            /\ events' = IF interval
                         THEN Emit(events, Event(id, t.model_id, "downloading",
                                                 t.bytes_downloaded + Len(t.chunk),
                                                 t.total_bytes))
                         ELSE events
       \/ \E k \in 0..(Len(t.chunk) - 1) :
            /\ data' = WriteAll(data, f, Take(t.chunk, k))
            /\ ReturnErr(id, events)
    /\ Internal
    /\ UNCHANGED <<downloads, nextId, dirs, tokenizers, part, final,
                   quarantine, reports, now>>
    /\ UNCHANGED <<regVars, fcall, inference>>

\* download_file, lines 398-469: verify_with_progress on the part path and
\* the match on its result
TaskVerify(id) ==
    LET t == tasks[id]
        r == VerifyWithProgress(data[Unwrap(part[t.model_id])],
                                Unwrap(t.expected_hash), t.total_bytes)
    IN
    /\ t.pc = "verify"
    /\ \E readOk \in BOOLEAN :
         IF ~IsSome(part[t.model_id]) \/ ~readOk
         THEN ReturnErr(id, events)
         ELSE /\ tasks' = [tasks EXCEPT ![id] =
                             [@ EXCEPT !.pc = IF r.verified THEN "rename" ELSE "quarantine",
                                       !.result = Some(r)]]
              /\ UNCHANGED <<events, cancel_token>>
    /\ Internal
    /\ UNCHANGED <<downloads, nextId, fsVars, reports, now>>
    /\ UNCHANGED <<regVars, fcall, inference>>

\* download_file, lines 414-464: the part file is moved to the quarantine
\* directory, "corrupted" and download_corrupted are published, Err is returned
TaskQuarantine(id) ==
    LET t == tasks[id]
        name == QuarantineName(t.model_id, now)
    IN
    /\ t.pc = "quarantine"
    /\ IF ~IsSome(part[t.model_id])
       THEN /\ ReturnErr(id, events)
            /\ UNCHANGED <<part, quarantine, reports>>
       ELSE /\ quarantine' = RenameInto(quarantine, name, Unwrap(part[t.model_id]))
            /\ part' = [part EXCEPT ![t.model_id] = None]
            /\ reports' = reports \cup
                 {[model_id |-> t.model_id,
                   expected_hash |-> Unwrap(t.result).expected_hash,
                   actual_hash |-> Unwrap(t.result).computed_hash,
                   quarantine_path |-> name]}
            /\ ReturnErr(id, Emit(events, Event(id, t.model_id, "corrupted",
                                                t.total_bytes, t.total_bytes)))
    /\ data' = Unlink(data, part', final, quarantine')
    /\ Internal
    /\ UNCHANGED <<downloads, nextId, dirs, tokenizers, final, now>>
    /\ UNCHANGED <<regVars, fcall, inference>>

\* a copy to the final path that leaves the part file in place
RenameToFinalCopies(p, f, model_id) ==
    <<p, [f EXCEPT ![model_id] = p[model_id]]>>

\* std::fs::rename(part_path, final_path): the files at (part, final) afterwards
RenameToFinal(p, f, model_id) ==
    <<[p EXCEPT ![model_id] = None], [f EXCEPT ![model_id] = p[model_id]]>>

\* a task that marks the record of its download Completed when it succeeds
TaskRenameMarksCompleted(id) ==
    LET t == tasks[id] IN
    /\ t.pc = "rename"
    /\ IF ~IsSome(part[t.model_id])
       THEN /\ ReturnErr(id, events)
            /\ UNCHANGED <<part, final, downloads>>
       ELSE /\ part' = RenameToFinal(part, final, t.model_id)[1]
            /\ final' = RenameToFinal(part, final, t.model_id)[2]
            /\ tasks' = [tasks EXCEPT ![id] = Ended("ok")]
            /\ cancel_token' = [cancel_token EXCEPT ![id] = FALSE]
            /\ downloads' = UpdateStatus(downloads, id, "Completed")
            /\ events' = Emit(events, Event(id, t.model_id, SuccessStatus(t.expected_hash),
                                            t.total_bytes, t.total_bytes))
    /\ data' = Unlink(data, part', final', quarantine)
    /\ Internal
    /\ UNCHANGED <<nextId, dirs, tokenizers, quarantine, reports, now>>
    /\ UNCHANGED <<regVars, fcall, inference>>

\* download_file, lines 472-498: the rename and the terminal success event
TaskRename(id) ==
    LET t == tasks[id] IN
    /\ t.pc = "rename"
    /\ IF ~IsSome(part[t.model_id])
       THEN /\ ReturnErr(id, events)
            /\ UNCHANGED <<part, final>>
       ELSE /\ part' = RenameToFinal(part, final, t.model_id)[1]
            /\ final' = RenameToFinal(part, final, t.model_id)[2]
            /\ tasks' = [tasks EXCEPT ![id] = Ended("ok")]
            /\ cancel_token' = [cancel_token EXCEPT ![id] = FALSE]
            /\ events' = Emit(events, Event(id, t.model_id, SuccessStatus(t.expected_hash),
                                            t.total_bytes, t.total_bytes))
    /\ data' = Unlink(data, part', final', quarantine)
    /\ Internal
    /\ UNCHANGED <<downloads, nextId, dirs, tokenizers, quarantine, reports, now>>
    /\ UNCHANGED <<regVars, fcall, inference>>

\* ------------------------------------------------------- pause / resume / cancel
\* watch::Sender::send(true): the value changes while the receiver is alive
Send(id) ==
    [cancel_token EXCEPT ![id] = IF Live(id) THEN TRUE ELSE @]

\* what pause_download, resume_download and cancel_download return for id
PauseResult(id) ==
    IF IsSome(GetDownload(downloads, id)) THEN "Ok" ELSE "Download not found"

\* a resume that does not look at the status of the record
ResumeResultAnyStatus(id) ==
    IF IsSome(GetDownload(downloads, id)) THEN "Ok" ELSE "Download not found"

ResumeResult(id) ==
    IF IsSome(GetDownload(downloads, id))
    THEN IF downloads[id].status /= "Paused" THEN "Download is not paused" ELSE "Ok"
    ELSE "Download not found"

CancelResult(id) ==
    IF IsSome(GetDownload(downloads, id)) THEN "Ok" ELSE "Download not found"

\* manager::pause_download
Pause(id) ==
    /\ reply = None
    /\ IF PauseResult(id) = "Ok"
       THEN /\ cancel_token' = Send(id)
            /\ downloads' = UpdateStatus(downloads, id, "Paused")
            /\ reply' = Ok("pause", Some(id))
            /\ UNCHANGED <<tasks, nextId, fsVars, events, reports, now>>
       ELSE /\ reply' = Err("pause", Some(id), PauseResult(id))
            /\ UNCHANGED <<downloads, cancel_token, tasks, nextId, fsVars, events,
                           reports, now>>
    /\ UNCHANGED <<regVars, fcall, inference>>

\* manager::resume_download
Resume(id) ==
    /\ reply = None
    /\ IF ResumeResult(id) = "Ok"
       THEN /\ nextId <= MaxDownloads
            /\ LET d == downloads[id] IN
               \E mkdirOk, tokOk \in BOOLEAN, head \in HeadOutcomes :
                 /\ StartDownload(RemoveDownload(downloads, id), d.model_id, d.url,
                                  d.tokenizer_url, d.expected_hash, mkdirOk, tokOk, head)
                 /\ reply' = LET err == StartError(d.model_id, mkdirOk, tokOk, head) IN
                             IF err = "" THEN Ok("resume", Some(id))
                             ELSE Err("resume", Some(id), err)
       ELSE /\ reply' = Err("resume", Some(id), ResumeResult(id))
            /\ UNCHANGED <<downloads, cancel_token, tasks, nextId, fsVars, events,
                           reports, now>>
    /\ UNCHANGED <<regVars, fcall, inference>>

\* manager::cancel_download
Cancel(id) ==
    /\ reply = None
    /\ IF CancelResult(id) = "Ok"
       THEN /\ LET d == downloads[id] IN
               /\ downloads' = RemoveDownload(downloads, id)
               /\ cancel_token' = Send(id)
               /\ \E removeOk \in BOOLEAN :
                    part' = IF IsSome(part[d.model_id]) /\ removeOk
                            THEN [part EXCEPT ![d.model_id] = None]
                            ELSE part
               /\ events' = Emit(events, Event(id, d.model_id, "cancelled",
                                               d.bytes_downloaded, d.total_bytes))
            /\ data' = Unlink(data, part', final, quarantine)
            /\ reply' = Ok("cancel", Some(id))
            /\ UNCHANGED <<tasks, nextId, dirs, tokenizers, final, quarantine,
                           reports, now>>
       ELSE /\ reply' = Err("cancel", Some(id), CancelResult(id))
            /\ UNCHANGED <<downloads, cancel_token, tasks, nextId, fsVars, events,
                           reports, now>>
    /\ UNCHANGED <<regVars, fcall, inference>>

\* a removal that takes the final file and the tokenizer and leaves the
\* directory with its partial file
RemoveDirAllKeepsPart(d, tk, p, f, model_id) ==
    <<d, tk \ {model_id}, p, [f EXCEPT ![model_id] = None]>>

\* std::fs::remove_dir_all(models/{model_id}): the directories, tokenizers,
\* partial files and final files afterwards
RemoveDirAll(d, tk, p, f, model_id) ==
    <<d \ {model_id}, tk \ {model_id},
      [p EXCEPT ![model_id] = None], [f EXCEPT ![model_id] = None]>>

\* delete_model, lines 195-201: the directory is removed when it exists
DeleteModelFiles(d, tk, p, f, model_id) ==
    IF model_id \in d THEN RemoveDirAll(d, tk, p, f, model_id) ELSE <<d, tk, p, f>>

\* commands::delete_model
DeleteModel(model_id) ==
    LET after == DeleteModelFiles(dirs, tokenizers, part, final, model_id) IN
    /\ dirs' = after[1]
    /\ tokenizers' = after[2]
    /\ part' = after[3]
    /\ final' = after[4]
    /\ data' = Unlink(data, part', final', quarantine)
    /\ Internal
    /\ UNCHANGED <<downloads, cancel_token, tasks, nextId, quarantine,
                   events, reports, now>>
    /\ UNCHANGED <<regVars, fcall, inference>>

\* a second of wall-clock time passes (the clock is read only to name a
\* quarantine file, so only its advance past an existing name is observable)
Tick ==
    /\ now < MaxTime
    /\ DOMAIN quarantine /= {}
    /\ now' = now + 1
    /\ Internal
    /\ UNCHANGED <<downloads, cancel_token, tasks, nextId, fsVars, events, reports>>
    /\ UNCHANGED <<regVars, fcall, inference>>

\* the caller takes the result of its command
Return ==
    /\ reply /= None
    /\ reply' = None
    /\ UNCHANGED <<downloads, cancel_token, tasks, nextId, fsVars, events, reports, now>>
    /\ UNCHANGED <<regVars, fcall, inference>>

Next ==
    \/ \E m \in Models, h \in HashInputs : Start(m, h)
    \/ \E id \in Ids : TaskRequest(id)
    \/ \E id \in Ids : TaskNext(id)
    \/ \E id \in Ids : TaskWrite(id)
    \/ \E id \in Ids : TaskVerify(id)
    \/ \E id \in Ids : TaskQuarantine(id)
    \/ \E id \in Ids : TaskRename(id)
    \/ \E id \in Ids : Pause(id)
    \/ \E id \in Ids : Resume(id)
    \/ \E id \in Ids : Cancel(id)
    \/ \E m \in Models : DeleteModel(m)
    \/ Tick
    \/ Return

Spec == Init /\ [][Next]_vars

\* ------------------------------------------- the registry under its lock
\* the methods of DownloadState, and those that take the write lock
Methods ==
    {"add_download", "get_download", "update_progress", "update_status",
     "remove_download", "get_all_downloads"}
Writers == {"add_download", "update_progress", "update_status", "remove_download"}

\* the statuses callers pass to update_status and update_progress
Statuses == {"Downloading", "Paused"}

\* the record a caller passes to add_download
RegRecord(id) ==
    [id |-> id, model_id |-> "phi", url |-> Url, tokenizer_url |-> TokenizerUrl,
     bytes_downloaded |-> 0, total_bytes |-> Len(Content),
     status |-> "Downloading", expected_hash |-> None]

\* the arguments a method takes (the others stay at their defaults)
Arguments(op) ==
    {a \in [id : Ids \cup {0}, status : Statuses \cup {""}, bytes : 0..MaxBytes] :
        /\ (a.id = 0) = (op = "get_all_downloads")
        /\ (a.status = "") = (op \notin {"update_progress", "update_status"})
        /\ op /= "update_progress" => a.bytes = 0}

\* an acquisition that does not wait for the lock
CanLockAlways(c) == TRUE

\* self.downloads.write().await and read().await: when the caller gets the lock
CanLock(c) ==
    IF callers[c].op \in Writers
    THEN lock.writer = None /\ lock.readers = {}
    ELSE lock.writer = None

\* the lock once c holds it, and once c has dropped its guard
Locked(c) ==
    IF callers[c].op \in Writers
    THEN [lock EXCEPT !.writer = Some(c)]
    ELSE [lock EXCEPT !.readers = @ \cup {c}]
Unlocked(c) ==
    [writer |-> IF lock.writer = Some(c) THEN None ELSE lock.writer,
     readers |-> lock.readers \ {c}]

\* Option<&mut Download> of get_mut: the entry itself, inside the map
Entry(rec) == [shared |-> TRUE, rec |-> rec]

\* a lookup that hands out the entry in place of a copy
ClonedByReference(rec) == [shared |-> TRUE, rec |-> rec]

\* Option<&Download>::cloned(): a copy of the record that the caller owns
Cloned(rec) == [shared |-> FALSE, rec |-> rec]

\* an assignment through a reference to the entry of id: the entry holds rec
WriteEntry(reg, id, rec) ==
    [i \in DOMAIN reg \cup {id} |-> IF i = id THEN rec ELSE reg[i]]

\* a caller calls a method of DownloadState
Call(c, op, a) ==
    /\ callers[c].pc = "idle"
    /\ callers' = [callers EXCEPT ![c] =
                      [IdleCaller EXCEPT !.pc = "wait", !.op = op, !.id = a.id,
                                         !.status = a.status, !.bytes = a.bytes]]
    /\ UNCHANGED <<downloads, lock>>

\* the method gets the lock
Acquire(c) ==
    /\ callers[c].pc = "wait"
    /\ CanLock(c)
    /\ lock' = Locked(c)
    /\ callers' = [callers EXCEPT ![c].pc = "locked"]
    /\ UNCHANGED downloads

\* the method returns result and its guard is dropped
Returned(c, result) ==
    /\ callers' = [callers EXCEPT ![c].pc = "returned", ![c].result = result]
    /\ lock' = Unlocked(c)

\* DownloadState::add_download, under the write lock
AddDownloadLocked(c) ==
    /\ callers[c].pc = "locked" /\ callers[c].op = "add_download"
    /\ downloads' = AddDownload(downloads, RegRecord(callers[c].id))
    /\ Returned(c, {})

\* DownloadState::get_download, under the read lock
GetDownloadLocked(c) ==
    LET got == GetDownload(downloads, callers[c].id) IN
    /\ callers[c].pc = "locked" /\ callers[c].op = "get_download"
    /\ Returned(c, IF IsSome(got) THEN {Cloned(Unwrap(got))} ELSE {})
    /\ UNCHANGED downloads

\* DownloadState::get_all_downloads, under the read lock
GetAllDownloadsLocked(c) ==
    /\ callers[c].pc = "locked" /\ callers[c].op = "get_all_downloads"
    /\ Returned(c, {Cloned(downloads[i]) : i \in DOMAIN downloads})
    /\ UNCHANGED downloads

\* DownloadState::remove_download, under the write lock: the record is moved
\* out of the map to the caller
RemoveDownloadLocked(c) ==
    LET got == GetDownload(downloads, callers[c].id) IN
    /\ callers[c].pc = "locked" /\ callers[c].op = "remove_download"
    /\ downloads' = RemoveDownload(downloads, callers[c].id)
    /\ Returned(c, IF IsSome(got) THEN {Cloned(Unwrap(got))} ELSE {})

\* update_status and update_progress, under the write lock:
\* downloads.get_mut(download_id) finds the entry or does not
GetMut(c) ==
    LET got == GetDownload(downloads, callers[c].id) IN
    /\ callers[c].pc = "locked"
    /\ callers[c].op \in {"update_status", "update_progress"}
    /\ IF IsSome(got)
       THEN /\ callers' = [callers EXCEPT ![c].pc = "found",
                                          ![c].result = {Entry(Unwrap(got))}]
            /\ UNCHANGED lock
       ELSE Returned(c, {})
    /\ UNCHANGED downloads

\* update_status and update_progress: the assignments through the entry
\* get_mut returned
AssignEntry(c) ==
    LET call == callers[c]
        entry == (CHOOSE b \in call.result : TRUE).rec
        rec == IF call.op = "update_status"
               THEN [entry EXCEPT !.status = call.status]
               ELSE [entry EXCEPT !.bytes_downloaded = call.bytes,
                                  !.status = call.status]
    IN
    /\ call.pc = "found"
    /\ downloads' = WriteEntry(downloads, call.id, rec)
    /\ Returned(c, {})

\* the caller of get_download or get_all_downloads changes the status or the
\* byte count of a record it was given
ChangeSnapshot(c) ==
    /\ callers[c].pc = "returned"
    /\ \E s \in callers[c].result, status \in Statuses, bytes \in 0..MaxBytes :
         LET rec == [s.rec EXCEPT !.status = status, !.bytes_downloaded = bytes] IN
         /\ rec /= s.rec
         /\ callers' = [callers EXCEPT ![c].result = (@ \ {s}) \cup {[s EXCEPT !.rec = rec]}]
         /\ downloads' = IF s.shared
                         THEN WriteEntry(downloads, rec.id, rec)
                         ELSE downloads
    /\ UNCHANGED lock

\* the caller is done with what the method returned
Forget(c) ==
    /\ callers[c].pc = "returned"
    /\ callers' = [callers EXCEPT ![c] = IdleCaller]
    /\ UNCHANGED <<downloads, lock>>

\* the callers of the registry, in any interleaving
NextRegistry ==
    /\ \/ \E c \in Callers, op \in Methods : \E a \in Arguments(op) : Call(c, op, a)
       \/ \E c \in Callers : Acquire(c)
       \/ \E c \in Callers : AddDownloadLocked(c)
       \/ \E c \in Callers : GetDownloadLocked(c)
       \/ \E c \in Callers : GetAllDownloadsLocked(c)
       \/ \E c \in Callers : RemoveDownloadLocked(c)
       \/ \E c \in Callers : GetMut(c)
       \/ \E c \in Callers : AssignEntry(c)
       \/ \E c \in Callers : ChangeSnapshot(c)
       \/ \E c \in Callers : Forget(c)
    /\ UNCHANGED <<cancel_token, tasks, nextId, fsVars, events, reports, now, reply,
                   fcall, inference>>

SpecRegistry == Init /\ [][NextRegistry]_vars

\* ------------------------------------------------ the integrity verifier
\* what a Result holds: Ok(value) or Err(error)
ResultOk(value) == [ok |-> TRUE, value |-> value]
ResultErr(error) == [ok |-> FALSE, value |-> error]

\* io::ErrorKind of a failed file operation (Other: any kind but the two named)
IoErrorKinds == {"NotFound", "PermissionDenied", "Other"}

\* an error mapping that knows no permission_denied
FromIoErrorTwoKinds(kind) ==
    CASE kind = "NotFound" -> [kind |-> "file_not_found", message |-> "File not found"]
      [] OTHER -> [kind |-> "io_error", message |-> "IO error reading"]

\* VerificationError::from_io_error
FromIoError(kind) ==
    CASE kind = "NotFound" -> [kind |-> "file_not_found", message |-> "File not found"]
      [] kind = "PermissionDenied" ->
             [kind |-> "permission_denied", message |-> "Permission denied"]
      [] OTHER -> [kind |-> "io_error", message |-> "IO error reading"]

\* the file contents the verifier is run on
FileContents == UNION {[1..n -> 1..FileLen] : n \in 0..FileLen}

\* what a path holds when the verifier runs: the bytes of the file and, for
\* each file operation, the error it fails with (None: it succeeds)
Paths ==
    [metadata : {None} \cup {Some(k) : k \in IoErrorKinds},
     open : {None} \cup {Some(k) : k \in IoErrorKinds},
     read : {None, Some("Other")},
     bytes : FileContents]

\* the characters and the strings callers pass as expected hash
HashChars == {"1", "2", "a", "A", "b", "B"}
ExpectedHashes == UNION {[1..n -> HashChars] : n \in 0..MaxHashLen}

\* verification::compute_checksum
ComputeChecksum(path) ==
    IF IsSome(path.open) THEN ResultErr(FromIoError(Unwrap(path.open)))
    ELSE IF IsSome(path.read) THEN ResultErr(FromIoError(Unwrap(path.read)))
    ELSE ResultOk(Sha256Hex(path.bytes))

\* a verifier that fails when the hashes differ
VerifyIntegrityAtMismatchFails(path, expected_hash) ==
    IF IsSome(path.metadata) THEN ResultErr(FromIoError(Unwrap(path.metadata)))
    ELSE IF ~ComputeChecksum(path).ok THEN ComputeChecksum(path)
    ELSE IF ~VerifyIntegrity(path.bytes, expected_hash).verified
         THEN ResultErr(FromIoError("Other"))
    ELSE ResultOk(VerifyIntegrity(path.bytes, expected_hash))

\* verification::verify_integrity on a path
VerifyIntegrityAt(path, expected_hash) ==
    IF IsSome(path.metadata) THEN ResultErr(FromIoError(Unwrap(path.metadata)))
    ELSE IF ~ComputeChecksum(path).ok THEN ComputeChecksum(path)
    ELSE ResultOk(VerifyIntegrity(path.bytes, expected_hash))

\* a caller calls compute_checksum or verify_integrity
CallVerifier ==
    /\ fcall = None
    /\ \E path \in Paths :
         \/ fcall' = Some([fn |-> "compute_checksum", path |-> path,
                           expected_hash |-> <<>>, out |-> None])
         \/ \E h \in ExpectedHashes :
              fcall' = Some([fn |-> "verify_integrity", path |-> path,
                             expected_hash |-> h, out |-> None])

\* compute_checksum returns
ComputeChecksumReturns ==
    /\ IsSome(fcall) /\ Unwrap(fcall).fn = "compute_checksum"
    /\ Unwrap(fcall).out = None
    /\ fcall' = Some([Unwrap(fcall) EXCEPT !.out = Some(ComputeChecksum(Unwrap(fcall).path))])

\* verify_integrity returns
VerifyIntegrityReturns ==
    /\ IsSome(fcall) /\ Unwrap(fcall).fn = "verify_integrity"
    /\ Unwrap(fcall).out = None
    /\ fcall' = Some([Unwrap(fcall) EXCEPT !.out =
                        Some(VerifyIntegrityAt(Unwrap(fcall).path, Unwrap(fcall).expected_hash))])

\* the caller has taken the result
VerifierDone ==
    /\ IsSome(fcall) /\ Unwrap(fcall).out /= None
    /\ fcall' = None

\* what a function that keeps no state leaves alone
Stateless ==
    UNCHANGED <<downloads, cancel_token, tasks, nextId, fsVars, events, reports,
                now, reply, regVars, inference>>

NextVerifier ==
    /\ \/ CallVerifier
       \/ ComputeChecksumReturns
       \/ VerifyIntegrityReturns
       \/ VerifierDone
    /\ Stateless

SpecVerifier == Init /\ [][NextVerifier]_vars

\* -------------------------------------------- checksum with progress
\* compute_checksum_with_progress, with sizes counted in MiB: the threshold
\* 500 * 1024 * 1024, the buffer 8 * 1024 * 1024 and the 5.0 points between
\* two reports
ThresholdMiB == 500
BufferMiB == 8
ReportStep == 5

\* the sizes of the files hashed: empty and small ones, and those around the
\* threshold
FileSizes ==
    (0..SizeSpread) \cup ((ThresholdMiB - SizeSpread)..(ThresholdMiB + SizeSpread))

\* should_report_progress = total_bytes > 500 * 1024 * 1024
ShouldReportProgress(total_bytes) == total_bytes > ThresholdMiB

\* (bytes_processed as f32 / total_bytes as f32) * 100.0, kept as the exact
\* fraction num / den
Percentage(bytes_processed, total_bytes) ==
    [num |-> bytes_processed * 100, den |-> total_bytes]

\* percentage - last_percentage >= 5.0, both over the same total_bytes
AdvancedBy(percentage, last_percentage, points) ==
    percentage.num - last_percentage.num >= points * percentage.den

\* File::open and metadata succeeded: the locals before the loop
CallChecksumWithProgress ==
    /\ fcall = None
    /\ \E total_bytes \in FileSizes, channel \in BOOLEAN :
         fcall' = Some([fn |-> "compute_checksum_with_progress",
                        total_bytes |-> total_bytes,
                        progress_channel |-> channel,
                        bytes_processed |-> 0,
                        last_percentage |-> Percentage(0, total_bytes),
                        sent |-> 0,
                        last_sent |-> None,
                        pc |-> "loop"])

\* one turn of the loop: a read of up to a buffer, the hasher update and the
\* progress report
ReadChunk ==
    /\ IsSome(fcall) /\ Unwrap(fcall).fn = "compute_checksum_with_progress"
    /\ Unwrap(fcall).pc = "loop"
    /\ LET c == Unwrap(fcall)
           left == c.total_bytes - c.bytes_processed
       IN  IF left = 0
           THEN fcall' = Some([c EXCEPT !.pc = "done"])
           ELSE \E bytes_read \in 1..Min(BufferMiB, left) :
                  LET bytes_processed == c.bytes_processed + bytes_read
                      percentage == Percentage(bytes_processed, c.total_bytes)
                      report == /\ ShouldReportProgress(c.total_bytes)
                                /\ AdvancedBy(percentage, c.last_percentage, ReportStep)
                      snapshot == [bytes_processed |-> bytes_processed,
                                   total_bytes |-> c.total_bytes,
                                   percentage |-> percentage]
                  IN  fcall' = Some([c EXCEPT
                        !.bytes_processed = bytes_processed,
                        !.last_percentage = IF report THEN percentage ELSE @,
                        !.sent = IF report /\ c.progress_channel THEN @ + 1 ELSE @,
                        !.last_sent = IF report /\ c.progress_channel
                                      THEN Some(snapshot) ELSE @])

\* the hash is returned
ChecksumWithProgressReturns ==
    /\ IsSome(fcall) /\ Unwrap(fcall).fn = "compute_checksum_with_progress"
    /\ Unwrap(fcall).pc = "done"
    /\ fcall' = None

NextChecksumProgress ==
    /\ \/ CallChecksumWithProgress
       \/ ReadChunk
       \/ ChecksumWithProgressReturns
    /\ Stateless

SpecChecksumProgress == Init /\ [][NextChecksumProgress]_vars

\* ------------------------------------------------------ the digest paths
\* the functions that hash a file, and those that compare with a hash
DigestFns ==
    {"compute_checksum", "compute_checksum_with_progress", "verify_integrity",
     "verify_integrity_with_progress", "verify_with_progress"}
VerifyFns ==
    {"verify_integrity", "verify_integrity_with_progress", "verify_with_progress"}

\* the sizes (MiB) of the files hashed: below, at and above the threshold
DigestSizes == {ThresholdMiB - 1, ThresholdMiB, ThresholdMiB + 1}

\* the function that reads the file: verify_with_progress hands a file below
\* the threshold to verify_integrity, which calls compute_checksum
Reader(fn, file_size) ==
    CASE fn = "verify_with_progress" ->
             IF file_size < ThresholdMiB THEN "compute_checksum" ELSE "verify_with_progress"
      [] fn = "verify_integrity" -> "compute_checksum"
      [] fn = "verify_integrity_with_progress" -> "compute_checksum_with_progress"
      [] OTHER -> fn

\* whether the reader reports progress for a file of this size
Reports(reader, file_size) ==
    CASE reader = "compute_checksum_with_progress" -> ShouldReportProgress(file_size)
      [] reader = "verify_with_progress" -> TRUE
      [] OTHER -> FALSE

\* a hasher that keeps only the last update
HasherUpdateKeepsLast(hasher, bytes) == bytes

\* Sha256::new() and hasher.update(&buffer[..bytes_read]): the hasher holds
\* the bytes it was fed, in order
HasherNew == <<>>
HasherUpdate(hasher, bytes) == hasher \o bytes

\* format!("{:x}", hasher.finalize())
HasherFinalizeHex(hasher) == Sha256Hex(hasher)

\* a caller calls one of the functions on a readable file
CallDigest ==
    /\ fcall = None
    /\ \E fn \in DigestFns, bytes \in FileContents, file_size \in DigestSizes :
         \E h \in IF fn \in VerifyFns THEN ExpectedHashes ELSE {<<>>} :
           fcall' = Some([fn |-> fn, bytes |-> bytes, expected_hash |-> h,
                          file_size |-> file_size, hasher |-> HasherNew,
                          bytes_processed |-> 0, sent |-> 0, pc |-> "read",
                          out |-> None])

\* one turn of the reading loop (io::copy, or the 8MB buffer loops): a read
\* of some bytes, the update of the hasher and perhaps a progress report; a
\* read of no byte ends the loop
DigestRead ==
    /\ IsSome(fcall) /\ Unwrap(fcall).fn \in DigestFns
    /\ Unwrap(fcall).pc = "read"
    /\ LET c == Unwrap(fcall)
           left == Len(c.bytes) - c.bytes_processed
       IN  IF left = 0
           THEN fcall' = Some([c EXCEPT !.pc = "finalize"])
           ELSE \E bytes_read \in 1..Min(BufferMiB, left) :
                \E report \in {FALSE, Reports(Reader(c.fn, c.file_size), c.file_size)} :
                  fcall' = Some([c EXCEPT
                     !.hasher = HasherUpdate(@, SubSeq(c.bytes, c.bytes_processed + 1,
                                                       c.bytes_processed + bytes_read)),
                     !.bytes_processed = @ + bytes_read,
                     !.sent = IF report THEN @ + 1 ELSE @])

\* the digest is formatted and, in the verifying functions, compared with the
\* lowercased expected hash
DigestReturns ==
    /\ IsSome(fcall) /\ Unwrap(fcall).fn \in DigestFns
    /\ Unwrap(fcall).pc = "finalize"
    /\ LET c == Unwrap(fcall)
           computed_hash == HasherFinalizeHex(c.hasher)
           expected_lower == ToLowercase(c.expected_hash)
       IN  fcall' = Some([c EXCEPT
              !.pc = "returned",
              !.out = Some([computed_hash |-> computed_hash,
                            verified |-> IF c.fn \in VerifyFns
                                         THEN Some(computed_hash = expected_lower)
                                         ELSE None])])

\* the caller has taken the result
DigestDone ==
    /\ IsSome(fcall) /\ Unwrap(fcall).fn \in DigestFns
    /\ Unwrap(fcall).pc = "returned"
    /\ fcall' = None

NextDigest ==
    /\ \/ CallDigest
       \/ DigestRead
       \/ DigestReturns
       \/ DigestDone
    /\ Stateless

SpecDigest == Init /\ [][NextDigest]_vars

\* ------------------------------------------------ quarantine file names
\* the characters of a file name, and the suffix ".gguf"
NameChars == {"m", "2", "_"}
Gguf == <<".", "g", "g", "u", "f">>

\* the names parse_quarantine_filename is called with
FileNames ==
    LET stems == UNION {[1..n -> NameChars] : n \in 0..MaxNameLen}
    IN  stems \cup {stem \o Gguf : stem \in stems}

\* str::strip_suffix(..).unwrap_or(filename)
StripSuffix(filename, suffix) ==
    IF /\ Len(filename) >= Len(suffix)
       /\ SubSeq(filename, Len(filename) - Len(suffix) + 1, Len(filename)) = suffix
    THEN Take(filename, Len(filename) - Len(suffix))
    ELSE filename

\* str::rfind: the byte index (from 0) of the last occurrence of ch
RFind(str, ch) ==
    LET at == {i \in 1..Len(str) : str[i] = ch}
    IN  IF at = {} THEN None
        ELSE Some((CHOOSE i \in at : \A j \in at : j <= i) - 1)

\* verification::commands::parse_quarantine_filename
ParseQuarantineFilename(filename) ==
    LET name == StripSuffix(filename, Gguf)
        found == RFind(name, "_")
    IN  IF ~IsSome(found) THEN None
        ELSE
          LET last_underscore == Unwrap(found)
              before == RFind(Take(name, last_underscore), "_")
              timestamp_start == IF IsSome(before) THEN Unwrap(before) ELSE 0
          IN  IF Len(name) < last_underscore + 7 THEN None
              ELSE IF timestamp_start = 0
              THEN Some(<<Take(name, last_underscore), Drop(name, last_underscore + 1)>>)
              ELSE Some(<<Take(name, timestamp_start), Drop(name, timestamp_start + 1)>>)

\* a parser that takes everything before the last underscore as model id
ParseAtLastUnderscore(filename) ==
    LET name == StripSuffix(filename, Gguf)
        found == RFind(name, "_")
    IN  IF ~IsSome(found) THEN None
        ELSE Some(<<Take(name, Unwrap(found)), Drop(name, Unwrap(found) + 1)>>)

\* the parser list_quarantined_files calls
ParseStem(filename) == ParseQuarantineFilename(filename)

\* a caller calls parse_quarantine_filename
CallParser ==
    /\ fcall = None
    /\ \E filename \in FileNames :
         fcall' = Some([fn |-> "parse_quarantine_filename", filename |-> filename,
                        out |-> None])

\* parse_quarantine_filename returns
ParserReturns ==
    /\ IsSome(fcall) /\ Unwrap(fcall).fn = "parse_quarantine_filename"
    /\ Unwrap(fcall).out = None
    /\ fcall' = Some([Unwrap(fcall) EXCEPT
                        !.out = Some(ParseQuarantineFilename(Unwrap(fcall).filename))])

\* the caller has taken the result
ParserDone ==
    /\ IsSome(fcall) /\ Unwrap(fcall).fn = "parse_quarantine_filename"
    /\ Unwrap(fcall).out /= None
    /\ fcall' = None

NextParser ==
    /\ \/ CallParser
       \/ ParserReturns
       \/ ParserDone
    /\ Stateless

SpecParser == Init /\ [][NextParser]_vars

\* ------------------------------------------- listing the quarantine directory
\* the suffix ".corrupted" and the extension "corrupted"
Corrupted == <<".", "c", "o", "r", "r", "u", "p", "t", "e", "d">>
CorruptedExtension == Drop(Corrupted, 1)

\* n times the character ch
Repeat(ch, n) == [i \in 1..n |-> ch]

\* chrono's format "%Y%m%d_%H%M%S": eight digits, an underscore, six digits
Timestamps ==
    {Repeat(d, 8) \o <<"_">> \o Repeat(t, 6) : d, t \in {"1", "2"}}

\* the model ids of the downloads: not empty, with and without underscores
ModelIds == UNION {[1..n -> NameChars] : n \in 1..MaxIdLen}

\* download_file, line 423: format!("{}_{}.gguf.corrupted", model_id, timestamp)
QuarantineFilename(model_id, timestamp) ==
    model_id \o <<"_">> \o timestamp \o Gguf \o Corrupted

\* other files a quarantine directory may hold: a text file, a .corrupted
\* file with no underscore, one whose last part is too short, the bare
\* suffix, one with no .gguf, and a quarantine name without its suffix
OtherNames ==
    {<<"m", ".", "t", "x", "t">>,
     <<"m">> \o Corrupted,
     <<"m", "_", "2">> \o Gguf \o Corrupted,
     Corrupted,
     <<"m", "_">> \o Repeat("2", 6) \o Corrupted,
     <<"m", "_">> \o Repeat("2", 8) \o <<"_">> \o Repeat("2", 6) \o Gguf}

DirNames ==
    {QuarantineFilename(m, t) : m \in ModelIds, t \in Timestamps} \cup OtherNames

\* the sets of at most MaxDirFiles names: any one name, with other files
NameSets ==
    {{}} \cup {{a} : a \in DirNames}
         \cup (IF MaxDirFiles >= 2 THEN {{a, b} : a \in OtherNames, b \in DirNames} ELSE {})
         \cup (IF MaxDirFiles >= 3
               THEN {{a, b, c} : a, b \in OtherNames, c \in DirNames} ELSE {})

\* the quarantine directory: missing (None), or there with its files, and
\* readable or not
Directories ==
    {None} \cup {Some([names |-> names, readable |-> r]) :
                    names \in NameSets, r \in BOOLEAN}

\* an extension that starts at the first dot of the name
PathExtensionFromFirstDot(name) ==
    LET at == {i \in 1..Len(name) : name[i] = "."}
    IN  IF at = {} THEN None
        ELSE Some(Drop(name, CHOOSE i \in at : \A j \in at : i <= j))

\* Path::extension: the part after the last dot; none when there is no dot
\* or when the only dot is the first character
PathExtension(name) ==
    LET dot == RFind(name, ".")
    IN  IF ~IsSome(dot) \/ Unwrap(dot) = 0 THEN None
        ELSE Some(Drop(name, Unwrap(dot) + 1))

\* Path::file_stem: the part before the last dot, or the whole name
PathFileStem(name) ==
    LET dot == RFind(name, ".")
    IN  IF ~IsSome(dot) \/ Unwrap(dot) = 0 THEN name
        ELSE Take(name, Unwrap(dot))

\* list_quarantined_files, lines 98-116: the entry pushed for a file
QuarantinedFile(name) ==
    LET filename == PathFileStem(name)
        parsed == Unwrap(ParseStem(filename))
    IN  [id |-> filename, model_id |-> parsed[1], timestamp |-> parsed[2],
         expected_hash |-> "unknown", actual_hash |-> "unknown", file_path |-> name]

\* verification::commands::list_quarantined_files on a directory
ListQuarantinedFilesIn(dir) ==
    IF ~IsSome(dir) THEN ResultOk({})
    ELSE IF ~Unwrap(dir).readable THEN ResultErr("Failed to read quarantine directory")
    ELSE ResultOk({QuarantinedFile(name) :
                     name \in {n \in Unwrap(dir).names :
                                 /\ PathExtension(n) = Some(CorruptedExtension)
                                 /\ IsSome(ParseStem(PathFileStem(n)))}})

\* the frontend invokes list_quarantined_files
CallList ==
    /\ fcall = None
    /\ \E dir \in Directories :
         fcall' = Some([fn |-> "list_quarantined_files", dir |-> dir, out |-> None])

\* list_quarantined_files returns
ListReturns ==
    /\ IsSome(fcall) /\ Unwrap(fcall).fn = "list_quarantined_files"
    /\ Unwrap(fcall).out = None
    /\ fcall' = Some([Unwrap(fcall) EXCEPT
                        !.out = Some(ListQuarantinedFilesIn(Unwrap(fcall).dir))])

\* the frontend has taken the list
ListDone ==
    /\ IsSome(fcall) /\ Unwrap(fcall).fn = "list_quarantined_files"
    /\ Unwrap(fcall).out /= None
    /\ fcall' = None

NextListing ==
    /\ \/ CallList
       \/ ListReturns
       \/ ListDone
    /\ Stateless

SpecListing == Init /\ [][NextListing]_vars

\* ---------------------------------------------------------- storage check
\* the unsigned values of the width, and the bytes of a megabyte (1024 * 1024)
Word == 0..(2^WordBits - 1)
Mebi == 1024 * 1024

\* the sums of the available space of the disks, in bytes: whole megabytes
\* and one byte less than the next
AvailableBytes == {mb * Mebi + r : mb \in Word, r \in {0, Mebi - 1}}

\* u64::saturating_sub
SaturatingSub(a, b) == IF a >= b THEN a - b ELSE 0

\* a storage check that subtracts without looking at has_space
CheckStorageSpaceWrapping(available_bytes, required_mb) ==
    LET available_mb == (available_bytes \div 1024) \div 1024
    IN  [has_space |-> available_mb >= required_mb,
         available_mb |-> available_mb,
         required_mb |-> required_mb,
         shortfall_mb |-> (required_mb - available_mb) % (2^WordBits)]

\* downloads::commands::check_storage_space, the disks offering available_bytes
CheckStorageSpace(available_bytes, required_mb) ==
    LET available_mb == (available_bytes \div 1024) \div 1024
        has_space == available_mb >= required_mb
    IN  [has_space |-> has_space,
         available_mb |-> available_mb,
         required_mb |-> required_mb,
         shortfall_mb |-> IF has_space THEN 0
                          ELSE SaturatingSub(required_mb, available_mb)]

\* a caller calls check_storage_space
CallStorageCheck ==
    /\ fcall = None
    /\ \E available_bytes \in AvailableBytes, required_mb \in Word :
         fcall' = Some([fn |-> "check_storage_space",
                        available_bytes |-> available_bytes,
                        required_mb |-> required_mb, out |-> None])

\* check_storage_space returns
StorageCheckReturns ==
    /\ IsSome(fcall) /\ Unwrap(fcall).fn = "check_storage_space"
    /\ Unwrap(fcall).out = None
    /\ fcall' = Some([Unwrap(fcall) EXCEPT !.out =
             Some(CheckStorageSpace(Unwrap(fcall).available_bytes, Unwrap(fcall).required_mb))])

\* the caller has taken the result
StorageCheckDone ==
    /\ IsSome(fcall) /\ Unwrap(fcall).fn = "check_storage_space"
    /\ Unwrap(fcall).out /= None
    /\ fcall' = None

NextStorage ==
    /\ \/ CallStorageCheck
       \/ StorageCheckReturns
       \/ StorageCheckDone
    /\ Stateless

SpecStorage == Init /\ [][NextStorage]_vars

\* ------------------------------------------------------ quarantine store
\* Path::file_stem of a quarantine file: {model_id}_{timestamp}.gguf, the name
\* without its .corrupted extension
FileStem(name) == <<name.model_id, name.timestamp>>

\* a stem that forgets the timestamp
FileStemOfModel(name) == <<name.model_id, 0>>

\* the stem delete_quarantined_file compares with file_id
EntryStem(name) == FileStem(name)

\* the ids callers pass to delete_quarantined_file
FileIds == {<<m, t>> : m \in Models, t \in 0..(MaxTime + 1)}

\* list_quarantined_files: one entry per .corrupted file of the directory
ListQuarantinedFiles(q) ==
    {[id |-> FileStem(name), model_id |-> name.model_id,
      timestamp |-> name.timestamp, file_path |-> name] : name \in DOMAIN q}

\* std::fs::remove_file on a quarantine file
RemoveFile(q, name) == [n \in DOMAIN q \ {name} |-> q[n]]

\* download_file, lines 421-433: a part file that failed verification is
\* renamed into the quarantine directory under the name of the second
QuarantineFile(model_id) ==
    /\ reply = None /\ reply' = None
    /\ \E file \in Ids, bytes \in FileContents :
         /\ \A n \in DOMAIN quarantine : quarantine[n] /= file
         /\ quarantine' = RenameInto(quarantine, QuarantineName(model_id, now), file)
         /\ data' = Unlink([data EXCEPT ![file] = bytes], part, final, quarantine')
    /\ UNCHANGED <<downloads, cancel_token, tasks, nextId, dirs, tokenizers, part,
                   final, events, reports, now>>
    /\ UNCHANGED <<regVars, fcall, inference>>

\* verification::commands::delete_quarantined_file
DeleteQuarantinedFile(file_id) ==
    LET matches == {name \in DOMAIN quarantine : EntryStem(name) = file_id} IN
    /\ reply = None
    /\ IF matches = {}
       THEN /\ reply' = Err("delete_quarantined_file", Some(file_id),
                            "Quarantined file not found")
            /\ UNCHANGED <<quarantine, data>>
       ELSE \E name \in matches, removed \in BOOLEAN :
              IF removed
              THEN /\ quarantine' = RemoveFile(quarantine, name)
                   /\ data' = Unlink(data, part, final, quarantine')
                   /\ reply' = Ok("delete_quarantined_file", Some(file_id))
              ELSE /\ reply' = Err("delete_quarantined_file", Some(file_id),
                                   "Failed to delete quarantined file")
                   /\ UNCHANGED <<quarantine, data>>
    /\ UNCHANGED <<downloads, cancel_token, tasks, nextId, dirs, tokenizers, part,
                   final, events, reports, now>>
    /\ UNCHANGED <<regVars, fcall, inference>>

\* the quarantine directory: files arrive from downloads, the clock advances,
\* the user deletes
NextQuarantine ==
    \/ \E m \in Models : QuarantineFile(m)
    \/ \E file_id \in FileIds : DeleteQuarantinedFile(file_id)
    \/ Tick
    \/ Return

SpecQuarantine == Init /\ [][NextQuarantine]_vars

\* ------------------------------------------------- resume, step by step
\* the ids of the downloads when two calls of resume race: those started,
\* and the one the second call registers
ResumeIds == 1..(MaxDownloads + 1)

\* the first start_download of the run
StartFirst(model_id, expected_hash) ==
    /\ nextId = 1
    /\ Start(model_id, expected_hash)

\* the frontend invokes resume_download(download_id)
ResumeCall(c, id) ==
    /\ callers[c].pc = "idle"
    /\ callers' = [callers EXCEPT ![c] =
                      [IdleCaller EXCEPT !.pc = "get", !.op = "resume_download", !.id = id]]
    /\ UNCHANGED <<downloads, tasks, nextId, dirs, tokenizers>>

\* the call returns result to the frontend
ResumeReturns(c, result) ==
    callers' = [callers EXCEPT ![c].pc = "returned", ![c].result = {Unwrap(result)}]

\* resume_download, lines 521-524: state.get_download(download_id).await
\* and the look at the status of the copy
ResumeGet(c) ==
    LET id == callers[c].id
        got == GetDownload(downloads, id)
    IN
    /\ callers[c].pc = "get"
    /\ IF ~IsSome(got)
       THEN ResumeReturns(c, Err("resume", Some(id), "Download not found"))
       ELSE IF Unwrap(got).status /= "Paused"
       THEN ResumeReturns(c, Err("resume", Some(id), "Download is not paused"))
       ELSE callers' = [callers EXCEPT ![c].pc = "remove",
                                       ![c].result = {Cloned(Unwrap(got))}]
    /\ UNCHANGED <<downloads, tasks, nextId, dirs, tokenizers>>

\* resume_download, line 527: state.remove_download(download_id).await, whose
\* result is dropped
ResumeRemove(c) ==
    /\ callers[c].pc = "remove"
    /\ downloads' = RemoveDownload(downloads, callers[c].id)
    /\ callers' = [callers EXCEPT ![c].pc = "start"]
    /\ UNCHANGED <<tasks, nextId, dirs, tokenizers>>

\* resume_download, lines 532-544: start_download with the fields of the copy
ResumeStart(c) ==
    LET id == callers[c].id
        d == (CHOOSE s \in callers[c].result : TRUE).rec
    IN
    /\ callers[c].pc = "start"
    /\ nextId \in ResumeIds
    /\ \E mkdirOk, tokOk \in BOOLEAN, head \in HeadOutcomes :
         /\ StartDownload(downloads, d.model_id, d.url, d.tokenizer_url,
                          d.expected_hash, mkdirOk, tokOk, head)
         /\ ResumeReturns(c, LET err == StartError(d.model_id, mkdirOk, tokOk, head) IN
                             IF err = "" THEN Ok("resume", Some(id))
                             ELSE Err("resume", Some(id), err))

\* the frontend has taken the result of its call
ResumeForget(c) ==
    /\ callers[c].pc = "returned"
    /\ callers' = [callers EXCEPT ![c] = IdleCaller]
    /\ UNCHANGED <<downloads, tasks, nextId, dirs, tokenizers>>

\* a download is started and paused, and the frontend calls resume from
\* several places at once
NextResume ==
    \/ \E m \in Models, h \in HashInputs : StartFirst(m, h)
    \/ \E id \in ResumeIds : Pause(id)
    \/ Return
    \/ /\ \/ \E c \in Callers, id \in ResumeIds : ResumeCall(c, id)
          \/ \E c \in Callers : ResumeGet(c)
          \/ \E c \in Callers : ResumeRemove(c)
          \/ \E c \in Callers : ResumeStart(c)
          \/ \E c \in Callers : ResumeForget(c)
       /\ reply = None
       /\ UNCHANGED <<cancel_token, part, final, quarantine, data, events, reports,
                      now, reply, lock, fcall, inference>>

InitResume ==
    FreshOver(ResumeIds) /\ fcall = None /\ inference = InferenceStateDefault

SpecResume == InitResume /\ [][NextResume]_vars

\* ---------------------------------------------------------------- inference
\* the calls of generate that hold the read guard of the model
Generating == {g \in Callers : inference.calls[g].pc \in {"stream", "check", "loaded"}}

\* load_model (the write lock of the model waits for the generations): the
\* model is built, or the load fails
LoadModel ==
    /\ Generating = {}
    /\ \E built \in BOOLEAN :
         inference' = [inference EXCEPT !.model = built,
                                        !.status = IF built THEN "Loaded" ELSE "Error"]

\* unload_model
UnloadModel ==
    /\ Generating = {}
    /\ inference' = [inference EXCEPT !.model = FALSE, !.status = "Unloaded"]

\* the frontend invokes generate
GenerateCall(g) ==
    /\ inference.calls[g].pc = "idle"
    /\ inference' = [inference EXCEPT !.calls[g] = [IdleGenerate EXCEPT !.pc = "reset"]]

\* InferenceState::reset_abort
ResetAbort(flag) == FALSE

\* generate, line 197: state.reset_abort().await
GenerateReset(g) ==
    /\ inference.calls[g].pc = "reset"
    /\ inference' = [inference EXCEPT !.abort_flag = ResetAbort(@),
                                       !.calls[g].pc = "status"]

\* generate, line 198: state.set_status(Generating).await
GenerateSetStatus(g) ==
    /\ inference.calls[g].pc = "status"
    /\ inference' = [inference EXCEPT !.status = "Generating",
                                       !.calls[g].pc = "model"]

\* generate, lines 200-210: the read guard of the model; with no model the
\* status is set to Unloaded and the call returns an error, else the
\* completion stream is made
GenerateGetModel(g) ==
    /\ inference.calls[g].pc = "model"
    /\ IF inference.model
       THEN \E n \in 0..MaxTokens :
              inference' = [inference EXCEPT !.calls[g].pc = "stream",
                                             !.calls[g].left = n]
       ELSE inference' = [inference EXCEPT !.status = "Unloaded",
                                           !.calls[g].pc = "idle"]

\* generate, lines 212 and 228: stream.next().await yields a token, or the
\* stream has ended and "inference:complete" is emitted
GenerateNext(g) ==
    LET c == inference.calls[g] IN
    /\ c.pc = "stream"
    /\ inference' = IF c.left > 0
                     THEN [inference EXCEPT !.calls[g].pc = "check"]
                     ELSE [inference EXCEPT !.calls[g].pc = "loaded",
                                            !.calls[g].completes = @ + 1]

\* generate, lines 213-225: is_abort_requested().await, then either
\* "inference:complete" or the "inference:token" of the token
GenerateCheck(g) ==
    LET c == inference.calls[g] IN
    /\ c.pc = "check"
    /\ inference' = IF inference.abort_flag
                     THEN [inference EXCEPT !.calls[g].pc = "loaded",
                                            !.calls[g].completes = @ + 1]
                     ELSE [inference EXCEPT !.calls[g].pc = "stream",
                                            !.calls[g].tokens = @ + 1,
                                            !.calls[g].left = @ - 1]

\* generate, lines 217-218 and 229-231: set_status(Loaded).await and return
GenerateReturn(g) ==
    /\ inference.calls[g].pc = "loaded"
    /\ inference' = [inference EXCEPT !.status = "Loaded",
                                       !.calls[g].pc = "idle"]

\* abort_inference: request_abort sets the flag
AbortInference ==
    inference' = [inference EXCEPT
        !.abort_flag = TRUE,
        !.calls = [g \in Callers |->
                     IF @[g].pc \in {"status", "model", "stream", "check"}
                     THEN [@[g] EXCEPT !.aborted = TRUE] ELSE @[g]]]

NextInference ==
    /\ \/ LoadModel
       \/ UnloadModel
       \/ \E g \in Callers : GenerateCall(g)
       \/ \E g \in Callers : GenerateReset(g)
       \/ \E g \in Callers : GenerateSetStatus(g)
       \/ \E g \in Callers : GenerateGetModel(g)
       \/ \E g \in Callers : GenerateNext(g)
       \/ \E g \in Callers : GenerateCheck(g)
       \/ \E g \in Callers : GenerateReturn(g)
       \/ AbortInference
    /\ UNCHANGED <<downloads, cancel_token, tasks, nextId, fsVars, events, reports,
                   now, reply, regVars, fcall>>

SpecInference == Init /\ [][NextInference]_vars

\* ------------------------------------------------------------ observations
TerminalStatuses == {"completed", "verified", "failed", "cancelled", "corrupted"}

\* the events of id with a status in S that were published so far
Published(id, S) == SelectSeq(events[id].log, LAMBDA e : e.status \in S)

\* the events published for id by the step, in order
NewEvents(id) ==
    IF events'[id] = events[id] THEN <<>>
    ELSE IF Unwrap(events'[id].last).status = "downloading"
         THEN <<Unwrap(events'[id].last)>>
         ELSE SubSeq(events'[id].log, Len(events[id].log) + 1, Len(events'[id].log))

\* the task of id returns Ok in this step: it renamed the part file
Succeeds(id) == tasks[id].pc = "rename" /\ tasks'[id].pc = "ok"

\* ------------------------------------------------------------------ claims

\* C1: every download that was started publishes exactly one terminal event
\* (completed, verified, failed, cancelled or corrupted): never two, and one
\* once its task has ended.
C1_ExactlyOneTerminalEvent ==
    \A id \in Ids :
        /\ Len(Published(id, TerminalStatuses)) <= 1
        /\ tasks[id].pc \in {"ok", "err"} => Len(Published(id, TerminalStatuses)) = 1

\* C2: when the verifier reported a mismatch (the task is about to quarantine),
\* the step that follows leaves the final path alone, adds exactly one file to
\* the quarantine directory and publishes exactly one "corrupted" event.
C2_MismatchQuarantinesOnce ==
    [][\A id \in Ids :
         tasks[id].pc = "quarantine" /\ tasks'[id].pc /= "quarantine" =>
           /\ final' = final
           /\ DOMAIN quarantine \subseteq DOMAIN quarantine'
           /\ Cardinality(DOMAIN quarantine') = Cardinality(DOMAIN quarantine) + 1
           /\ Len(SelectSeq(NewEvents(id), LAMBDA e : e.status = "corrupted")) = 1
           /\ Len(Published(id, {"corrupted"})) = 0]_vars

\* C3: when "completed" or "verified" is published, the file moved to the final
\* path holds exactly total_bytes bytes, that is the offset plus the bytes of
\* the chunks received, and the event carries that number.
C3_SuccessMeansWholeFile ==
    [][\A id \in Ids :
         Succeeds(id) =>
           LET t == tasks[id]
               size == FileLength(final'[t.model_id])
           IN  /\ size = t.total_bytes
               /\ size = t.bytes_downloaded
               /\ \A i \in 1..Len(NewEvents(id)) :
                    NewEvents(id)[i].bytes_downloaded = size]_vars

\* C4: a file comes to be at a final path only by the rename of the part file
\* of the same model: the file that was at the part path is now at the final
\* path and the part path is empty; nothing creates or opens a final path.
C4_FinalOnlyByRename ==
    [][\A m \in Models :
         final'[m] /= final[m] /\ IsSome(final'[m]) =>
           /\ IsSome(part[m])
           /\ final'[m] = part[m]
           /\ part'[m] = None
           /\ data'[Unwrap(final'[m])] = data[Unwrap(part[m])]]_vars

\* C4 witness: a part file with all its bytes was renamed to the final path
C4_Witness ==
    \E m \in Models : IsSome(final[m]) /\ data[Unwrap(final[m])] = Content

\* C5: with an expected hash, the task renames and publishes "verified" only
\* with a digest of the part file that equals the expected hash ignoring
\* case; without one it does not verify and publishes "completed".
C5_VerifiedOnlyOnMatch ==
    [][\A id \in Ids :
         LET t == tasks[id] IN
         /\ t.pc = "verify" /\ tasks'[id].pc = "rename" =>
              /\ IsSome(part[t.model_id])
              /\ Sha256Hex(data[Unwrap(part[t.model_id])])
                   = ToLowercase(Unwrap(t.expected_hash))
         /\ Succeeds(id) =>
              IF IsSome(t.expected_hash)
              THEN /\ IsSome(t.result)
                   /\ Unwrap(t.result).computed_hash
                        = ToLowercase(Unwrap(t.expected_hash))
                   /\ Len(Published(id, {"verifying"})) = 1
                   /\ NewEvents(id) = <<Event(id, t.model_id, "verified",
                                              t.total_bytes, t.total_bytes)>>
              ELSE /\ t.result = None
                   /\ Len(Published(id, {"verifying"})) = 0
                   /\ NewEvents(id) = <<Event(id, t.model_id, "completed",
                                              t.total_bytes, t.total_bytes)>>]_vars

\* C5 witness: one download was verified against a hash given in upper case
\* and another, started without a hash, completed
C5_Witness ==
    \E i, j \in Ids :
        /\ Len(Published(i, {"verified"})) = 1
        /\ Len(Published(j, {"completed"})) = 1

\* C6: when a task opens the part file to append, the offset of its Range
\* request is the length the part file has at that moment.
C6_RangeOffsetIsPartLength ==
    [][\A id \in Ids :
         tasks[id].pc = "request" /\ tasks'[id].pc = "stream" =>
           tasks[id].offset = FileLength(part[tasks[id].model_id])]_vars

\* a task that can still write a chunk to the file: it is writing one, or it
\* waits for the next one with its cancellation signal not set
CanWrite(id, file) ==
    /\ tasks[id].file = Some(file)
    /\ \/ tasks[id].pc = "write"
       \/ tasks[id].pc = "stream" /\ tasks[id].body /= <<>> /\ ~cancel_token[id]

\* C7: at most one live task can still write a chunk to a given part file.
C7_OneWriterPerPartFile ==
    \A file \in Ids : Cardinality({id \in Ids : CanWrite(id, file)}) <= 1

\* C8: the bytes_downloaded of the events published for one id never decrease.
C8_EventBytesNonDecreasing ==
    [][\A id \in Ids :
         LET new == NewEvents(id)
             old == IF IsSome(events[id].last)
                    THEN <<Unwrap(events[id].last)>> ELSE <<>>
             seq == old \o new
         IN  \A i \in 1..(Len(seq) - 1) :
                seq[i].bytes_downloaded <= seq[i + 1].bytes_downloaded]_vars

\* C9: the snapshot query(id) returns carries the current length of the part
\* file of the download.
C9_SnapshotBytesArePartLength ==
    \A id \in Ids :
        IsSome(GetDownloadProgress(id)) =>
            Unwrap(GetDownloadProgress(id)).bytes_downloaded
                = FileLength(part[downloads[id].model_id])

\* C9: and that length never decreases while the download is registered.
C9_PartLengthNeverDecreases ==
    [][\A id \in DOMAIN downloads \cap DOMAIN downloads' :
         LET m == downloads[id].model_id IN
         FileLength(part[m]) <= IF IsSome(part'[m])
                                THEN Len(data'[Unwrap(part'[m])])
                                ELSE 0]_vars

\* C9: both halves of the claim
C9_QueryMatchesPartFile ==
    []C9_SnapshotBytesArePartLength /\ C9_PartLengthNeverDecreases

\* C10: once cancel(id) succeeded (it published "cancelled"), id is not in the
\* registry: query returns None and pause, resume and cancel fail with
\* "Download not found", whatever the task does.
C10_CancelledIsGone ==
    \A id \in Ids :
        Len(Published(id, {"cancelled"})) > 0 =>
            /\ id \notin DOMAIN downloads
            /\ GetDownloadProgress(id) = None
            /\ PauseResult(id) = "Download not found"
            /\ ResumeResult(id) = "Download not found"
            /\ CancelResult(id) = "Download not found"

\* C10 witness: a download was cancelled and its task ran on to the end
C10_Witness ==
    \E id \in Ids :
        /\ Len(Published(id, {"cancelled"})) = 1
        /\ Len(Published(id, {"cancelled", "failed"})) = 2

\* the step is the command op called with id, returning to its caller
Called(op, id) ==
    /\ reply = None
    /\ IsSome(reply')
    /\ Unwrap(reply').op = op
    /\ Unwrap(reply').id = Some(id)

\* the step changes nothing but the reply
OnlyReplies ==
    UNCHANGED <<downloads, cancel_token, tasks, nextId, fsVars, events, reports, now>>

\* C11: resume(id) on a registered download whose status is not Paused returns
\* "Download is not paused" and changes nothing: the record keeps its status,
\* no record is added and no task is spawned.
C11_ResumeNotPausedRefused ==
    [][\A id \in Ids :
         /\ Called("resume", id)
         /\ IsSome(GetDownload(downloads, id))
         /\ downloads[id].status /= "Paused"
         => /\ reply' = Err("resume", Some(id), "Download is not paused")
            /\ OnlyReplies]_vars

\* C11 witness: a resume of a Downloading record was refused, and the record
\* is still Downloading
C11_Witness ==
    \E id \in DOMAIN downloads :
        /\ reply = Err("resume", Some(id), "Download is not paused")
        /\ downloads[id].status = "Downloading"

\* C12: pause(id) on a registered id sets the cancellation signal its task
\* reads and the status Paused; a record that is Paused stays registered and
\* reported as "paused" by the query, whatever its task does, until a resume or
\* a cancel of that id; pause(id) on an unknown id returns "Download not
\* found" and changes nothing.
C12_PauseIsAuthoritative ==
    [][\A id \in Ids :
         /\ Called("pause", id) =>
              IF IsSome(GetDownload(downloads, id))
              THEN /\ reply' = Ok("pause", Some(id))
                   /\ downloads'[id].status = "Paused"
                   /\ Live(id) => cancel_token'[id]
                   /\ \A j \in DOMAIN downloads \ {id} : downloads'[j] = downloads[j]
                   /\ DOMAIN downloads' = DOMAIN downloads
              ELSE /\ reply' = Err("pause", Some(id), "Download not found")
                   /\ OnlyReplies
         /\ (/\ IsSome(GetDownload(downloads, id))
             /\ downloads[id].status = "Paused"
             /\ ~Called("resume", id)
             /\ ~Called("cancel", id))
            => /\ IsSome(GetDownloadProgress(id)')
               /\ Unwrap(GetDownloadProgress(id)').status = "paused"]_vars

\* C12 witness: the task of a paused download has ended and the query still
\* reports it as paused
C12_Witness ==
    \E id \in DOMAIN downloads :
        /\ tasks[id].pc = "err"
        /\ Unwrap(GetDownloadProgress(id)).status = "paused"

\* C13: once pause(id) has set the cancellation signal, the next step of the
\* task of id at a chunk boundary ends it with a cancellation outcome: it
\* publishes no "failed" event, it does not go on to a success, and the part
\* file keeps every byte written.
C13_PausedTaskStopsQuietly ==
    [][\A id \in DOMAIN downloads :
         /\ downloads[id].status = "Paused"
         /\ cancel_token[id]
         /\ tasks[id].pc = "stream"
         /\ tasks'[id] /= tasks[id]
         => /\ tasks'[id].pc = "err"
            /\ Len(SelectSeq(NewEvents(id), LAMBDA e : e.status = "failed")) = 0
            /\ part' = part
            /\ data' = data]_vars

\* the length of the part file of model m after the step
PartLengthAfter(m) ==
    IF IsSome(part'[m]) THEN Len(data'[Unwrap(part'[m])]) ELSE 0

\* C14: a "failed" event published after a transfer-time error carries the
\* number of bytes the part file holds when the task stops, and a "cancelled"
\* event the number it holds when cancel is called.
C14_TerminalEventsCarryLastCount ==
    [][\A id \in Ids : \A i \in 1..Len(NewEvents(id)) :
         LET e == NewEvents(id)[i] IN
         /\ e.status = "failed" /\ tasks[id].pc \in {"request", "stream", "write"}
            => e.bytes_downloaded = PartLengthAfter(e.model_id)
         /\ e.status = "cancelled"
            => e.bytes_downloaded = FileLength(part[e.model_id])]_vars

\* s is a prefix of t
IsPrefix(s, t) == Len(s) <= Len(t) /\ SubSeq(t, 1, Len(s)) = s

\* C15: when a task aborts on a transfer-time error (the request, the status,
\* the stream, a write or the sync fails), no file is deleted, truncated or
\* moved: every path names the file it named and every file keeps the bytes
\* it held.
C15_ErrorKeepsPartFile ==
    [][\A id \in Ids :
         tasks[id].pc \in {"request", "stream", "write"} /\ tasks'[id].pc = "err"
         => /\ part' = part
            /\ final' = final
            /\ quarantine' = quarantine
            /\ \A file \in Ids : IsPrefix(data[file], data'[file])]_vars

\* C15 witness: a task wrote a byte to the part file it created and then
\* failed, and the part file holds that byte
C15_Witness ==
    \E id \in DOMAIN downloads :
        /\ tasks[id].pc = "err"
        /\ downloads[id].status = "Downloading"
        /\ part[downloads[id].model_id] = Some(id)
        /\ Len(data[id]) >= 1

\* C16: once cancel(id) has succeeded, no step of the task of id creates a
\* part file: a part path that names no file names none after the step, so
\* the part file cancel removed (or found missing) is not there when the task
\* has stopped.
C16_CancelledTaskLeavesNoPartFile ==
    [][\A id \in Ids :
         Len(Published(id, {"cancelled"})) > 0 /\ tasks'[id] /= tasks[id]
         => \A m \in Models : ~IsSome(part[m]) => ~IsSome(part'[m])]_vars

\* the errors start_download returns before it registers the download
StartErrors ==
    {"Failed to create model directory", "Tokenizer download failed",
     "HEAD request failed", "Could not determine file size"}

\* C17: a start that fails before the transfer is spawned (the directory
\* cannot be created, the tokenizer fetch fails, the size probe fails or
\* reports no content length) returns one of these errors, "Could not
\* determine file size" only after the directory and the tokenizer are there,
\* and adds no record, spawns no task and publishes nothing.
C17_FailedStartAddsNothing ==
    [][/\ reply = None
       /\ IsSome(reply')
       /\ Unwrap(reply').op = "start"
       /\ ~Unwrap(reply').ok
       => /\ Unwrap(reply').error \in StartErrors
          /\ Unwrap(reply').id = None
          /\ Unwrap(reply').error = "Could not determine file size"
               => dirs' /= {} /\ tokenizers' = dirs'
          /\ UNCHANGED <<downloads, tasks, nextId, cancel_token, part, final,
                         quarantine, data, events, reports>>]_vars

\* C17 witness: a start failed on the size probe while another download is
\* registered and running
C17_Witness ==
    /\ reply = Err("start", None, "Could not determine file size")
    /\ \E id \in DOMAIN downloads : Live(id)

\* C18: a resume(id) that succeeds found id Paused, removes id from the
\* registry and registers exactly one new record, Downloading, under another
\* id, with the model id, url, tokenizer url and expected hash of the old
\* record, and spawns its task; no other record changes.
C18_ResumeRegistersSameDownload ==
    [][\A id \in Ids :
         Called("resume", id) /\ Unwrap(reply').ok
         => /\ IsSome(GetDownload(downloads, id))
            /\ downloads[id].status = "Paused"
            /\ GetDownload(downloads', id) = None
            /\ \E new \in Ids \ {id} :
                 /\ DOMAIN downloads' = (DOMAIN downloads \ {id}) \cup {new}
                 /\ new \notin DOMAIN downloads
                 /\ downloads'[new].id = new
                 /\ downloads'[new].status = "Downloading"
                 /\ downloads'[new].model_id = downloads[id].model_id
                 /\ downloads'[new].url = downloads[id].url
                 /\ downloads'[new].tokenizer_url = downloads[id].tokenizer_url
                 /\ downloads'[new].expected_hash = downloads[id].expected_hash
                 /\ tasks[new].pc = "idle" /\ tasks'[new].pc = "request"
                 /\ \A j \in DOMAIN downloads \ {id} : downloads'[j] = downloads[j]]_vars

\* C18 witness: a download started with an expected hash was paused and
\* resumed under a new id
C18_Witness ==
    \E id \in Ids, new \in DOMAIN downloads :
        /\ reply = Ok("resume", Some(id))
        /\ id \notin DOMAIN downloads
        /\ new /= id
        /\ IsSome(downloads[new].expected_hash)
\* ------------------------------------------------------------------ C19
\* the caller whose method or whose own code takes this step
Steps(c) == callers'[c] /= callers[c]

\* the records a caller was given
Records(c) == {s.rec : s \in callers[c].result}

\* C19: get_download and get_all_downloads give the caller copies of the
\* registry's records as they are at the lookup; a caller that changes a
\* record it was given changes no record of the registry, so later lookups
\* are unaffected; and the registry's records change only in a step of
\* add_download, update_status, update_progress or remove_download, and then
\* only the record of the id the method was called with.
C19_SnapshotsAreCopies ==
    [][\A c \in Callers : Steps(c) =>
          /\ callers[c].pc = "locked" /\ callers[c].op = "get_download"
                => Records(c)' = {downloads'[i] : i \in DOMAIN downloads' \cap {callers[c].id}}
          /\ callers[c].pc = "locked" /\ callers[c].op = "get_all_downloads"
                => Records(c)' = {downloads'[i] : i \in DOMAIN downloads'}
          /\ callers[c].pc = "returned" => downloads' = downloads
          /\ downloads' /= downloads
                => /\ callers[c].op \in Writers
                   /\ callers[c].pc \in {"locked", "found"}
                   /\ \A i \in Ids \ {callers[c].id} :
                         GetDownload(downloads', i) = GetDownload(downloads, i)
      ]_vars

\* a caller of get_download holds a record it has changed, the registry still
\* holds the record as it was added, and nobody else is using the registry
C19_Witness ==
    \E c \in Callers :
        /\ callers[c].pc = "returned" /\ callers[c].op = "get_download"
        /\ \A d \in Callers \ {c} : callers[d].pc = "idle"
        /\ callers[c].id \in DOMAIN downloads
        /\ downloads[callers[c].id] = RegRecord(callers[c].id)
        /\ \E r \in Records(c) :
              /\ r.id = callers[c].id
              /\ r.status = "Paused" /\ r.bytes_downloaded = MaxBytes

\* ------------------------------------------------------------------ C20
\* the callers that hold the write lock, and those that hold the read lock
WriteHolders ==
    {c \in Callers : callers[c].pc \in {"locked", "found"} /\ callers[c].op \in Writers}
ReadHolders ==
    {c \in Callers : callers[c].pc = "locked" /\ callers[c].op \notin Writers}

\* C20: add_download, get_download, update_status, update_progress,
\* remove_download and get_all_downloads exclude each other as a
\* readers-writer lock does, and each takes effect in one step as if it ran
\* alone; update_status and update_progress on an absent id change nothing
\* and insert nothing; an id enters the registry only by add_download, so
\* once remove_download has returned no update_status brings the record back.
C20_RegistryOperationsAtomic ==
    [][/\ Cardinality(WriteHolders) <= 1
       /\ WriteHolders /= {} => ReadHolders = {}
       /\ \A c \in Callers : Steps(c) /\ callers'[c].pc = "returned"
                                      /\ callers[c].pc /= "returned" =>
             LET call == callers[c] IN
             /\ call.op = "add_download"
                   => downloads' = AddDownload(downloads, RegRecord(call.id))
             /\ call.op = "remove_download"
                   => downloads' = RemoveDownload(downloads, call.id)
             /\ call.op = "update_status"
                   => downloads' = UpdateStatus(downloads, call.id, call.status)
             /\ call.op = "update_progress"
                   => downloads' = UpdateProgress(downloads, call.id, call.bytes, call.status)
             /\ call.op \in {"update_status", "update_progress"}
                   /\ call.id \notin DOMAIN downloads
                   => downloads' = downloads
             /\ call.op \notin Writers => downloads' = downloads
             /\ DOMAIN downloads' \ DOMAIN downloads /= {}
                   => call.op = "add_download"
      ]_vars

\* remove_download has returned the record of an id, update_status called
\* with the same id has returned after it, and the registry has no such record
C20_Witness ==
    \E c, d \in Callers :
        /\ callers[c].pc = "returned" /\ callers[c].op = "remove_download"
        /\ callers[c].result /= {}
        /\ callers[d].pc = "returned" /\ callers[d].op = "update_status"
        /\ callers[d].id = callers[c].id
        /\ callers[c].id \notin DOMAIN downloads

\* ------------------------------------------------------------------ C21
\* the call of fn that has returned, if there is one
ReturnedFrom(fn) ==
    /\ IsSome(fcall) /\ Unwrap(fcall).fn = fn /\ Unwrap(fcall).out /= None

\* the spellings of a hash: the same characters, each in either case
Spellings(h) ==
    {s \in [1..Len(h) -> HashChars] :
        \A i \in 1..Len(h) : s[i] \in {LowerChar(h[i]), UpperChar(h[i])}}

\* C21: when verify_integrity returned a result for an expected hash h, it
\* returns a result with the same verified flag for the uppercase, the
\* lowercase and every mixed-case spelling of h on the same file, and the
\* expected_hash of the result is h with every letter in lower case.
C21_VerifyIgnoresCase ==
    ReturnedFrom("verify_integrity") /\ Unwrap(Unwrap(fcall).out).ok =>
        LET c == Unwrap(fcall)
            r == Unwrap(c.out).value
        IN  /\ \A s \in Spellings(c.expected_hash) \cup
                         {ToUppercase(c.expected_hash), ToLowercase(c.expected_hash)} :
                  /\ VerifyIntegrityAt(c.path, s).ok
                  /\ VerifyIntegrityAt(c.path, s).value.verified = r.verified
            /\ Len(r.expected_hash) = Len(c.expected_hash)
            /\ \A i \in 1..Len(c.expected_hash) :
                  /\ r.expected_hash[i] \in {"1", "2", "a", "b"}
                  /\ r.expected_hash[i] \in {c.expected_hash[i],
                                              LowerChar(c.expected_hash[i])}

\* verify_integrity has found a file to match a hash given in mixed case
C21_Witness ==
    /\ ReturnedFrom("verify_integrity")
    /\ Unwrap(Unwrap(fcall).out).ok
    /\ Unwrap(Unwrap(fcall).out).value.verified
    /\ \E i, j \in 1..Len(Unwrap(fcall).expected_hash) :
          /\ Unwrap(fcall).expected_hash[i] \in {"A", "B"}
          /\ Unwrap(fcall).expected_hash[j] \in {"a", "b"}

\* ------------------------------------------------------------------ C22
\* every file operation on the path succeeds
Readable(path) == path.metadata = None /\ path.open = None /\ path.read = None

\* C22: verify_integrity on a readable file whose digest differs from the
\* expected hash returns Ok with verified = FALSE and a computed_hash that
\* differs from expected_hash; it returns Err only when a file operation on
\* the path failed.
C22_MismatchIsAResult ==
    ReturnedFrom("verify_integrity") =>
        LET c == Unwrap(fcall)
            out == Unwrap(c.out)
        IN  /\ Readable(c.path) /\ Sha256Hex(c.path.bytes) /= ToLowercase(c.expected_hash)
                => /\ out.ok
                   /\ ~out.value.verified
                   /\ out.value.computed_hash /= out.value.expected_hash
                   /\ out.value.computed_hash = Sha256Hex(c.path.bytes)
            /\ ~out.ok => ~Readable(c.path)
            /\ Readable(c.path) => out.ok

\* verify_integrity has returned a mismatch on a readable file for a hash as
\* long as the digest
C22_Witness ==
    /\ ReturnedFrom("verify_integrity")
    /\ Readable(Unwrap(fcall).path)
    /\ Unwrap(Unwrap(fcall).out).ok
    /\ ~Unwrap(Unwrap(fcall).out).value.verified
    /\ Len(Unwrap(fcall).expected_hash) = Len(Unwrap(fcall).path.bytes) + 1

\* ------------------------------------------------------------------ C23
\* the first file operation of fn that fails on the path, with its error kind
FirstFailure(fn, path) ==
    IF fn = "verify_integrity" /\ IsSome(path.metadata) THEN path.metadata
    ELSE IF IsSome(path.open) THEN path.open
    ELSE path.read

\* C23: compute_checksum and verify_integrity fail exactly when a file
\* operation fails, and the kind of the error tells the cause of the first
\* failure: file_not_found for a missing file, permission_denied for a denied
\* access, io_error for any other failure; a failure carries an error and
\* neither a hash nor a verification result.
C23_ErrorKindTellsCause ==
    \A fn \in {"compute_checksum", "verify_integrity"} :
        ReturnedFrom(fn) =>
            LET c == Unwrap(fcall)
                out == Unwrap(c.out)
                cause == FirstFailure(fn, c.path)
            IN  /\ out.ok = ~IsSome(cause)
                /\ ~out.ok =>
                      /\ DOMAIN out.value = {"kind", "message"}
                      /\ out.value.kind =
                            (CASE cause = Some("NotFound") -> "file_not_found"
                               [] cause = Some("PermissionDenied") -> "permission_denied"
                               [] OTHER -> "io_error")
                /\ out.ok /\ fn = "compute_checksum" => out.value = Sha256Hex(c.path.bytes)

\* verify_integrity has failed with permission_denied on a file whose
\* metadata can be read and that cannot be opened
C23_Witness ==
    /\ ReturnedFrom("verify_integrity")
    /\ ~Unwrap(Unwrap(fcall).out).ok
    /\ Unwrap(fcall).path.metadata = None
    /\ Unwrap(fcall).path.open = Some("PermissionDenied")
    /\ Unwrap(Unwrap(fcall).out).value.kind = "permission_denied"

\* ------------------------------------------------------------------ C24
\* the call of compute_checksum_with_progress under way, given a sink
Hashing ==
    /\ IsSome(fcall) /\ Unwrap(fcall).fn = "compute_checksum_with_progress"
    /\ Unwrap(fcall).progress_channel

\* C24: compute_checksum_with_progress sends progress snapshots exactly for
\* the files of 500MB and more: once the file is read to its end, at least
\* one was sent if the size is at or above the threshold and none if it is
\* below; the percentage of each snapshot is at least 5 points above that of
\* the one before (the first at least 5), bytes_processed is at most
\* total_bytes and the percentage at most 100.
C24_ProgressFromThreshold ==
    [][Hashing /\ IsSome(fcall') =>
         LET c == Unwrap(fcall)
             d == Unwrap(fcall')
         IN  /\ d.pc = "done" => (d.sent > 0) = (d.total_bytes >= ThresholdMiB)
             /\ d.sent > c.sent =>
                   LET new == Unwrap(d.last_sent)
                       before == IF IsSome(c.last_sent)
                                 THEN Unwrap(c.last_sent).percentage
                                 ELSE Percentage(0, d.total_bytes)
                   IN  /\ new.percentage.num - before.num >= 5 * new.percentage.den
                       /\ new.bytes_processed <= new.total_bytes
                       /\ new.percentage.num <= 100 * new.percentage.den
      ]_vars

\* ------------------------------------------------------------------ C25
\* where the underscores of a name are (counted from 1), in rising order
Underscores(name) == {i \in 1..Len(name) : name[i] = "_"}

\* the k-th underscore from the end
FromEnd(name, k) ==
    CHOOSE i \in Underscores(name) :
        Cardinality({j \in Underscores(name) : j > i}) = k - 1

\* C25: parse_quarantine_filename, on the name without its .gguf suffix:
\* with two underscores or more it returns what follows the second
\* underscore from the end as the timestamp and what precedes it as the
\* artifact id; with exactly one underscore it splits at that underscore;
\* with none (or on the empty name) it returns no match.
C25_ParseSplitsAtTimestamp ==
    ReturnedFrom("parse_quarantine_filename") =>
        LET name == IF /\ Len(Unwrap(fcall).filename) >= 5
                       /\ Drop(Unwrap(fcall).filename, Len(Unwrap(fcall).filename) - 5) = Gguf
                    THEN Take(Unwrap(fcall).filename, Len(Unwrap(fcall).filename) - 5)
                    ELSE Unwrap(fcall).filename
            out == Unwrap(Unwrap(fcall).out)
            n == Cardinality(Underscores(name))
            split == FromEnd(name, IF n >= 2 THEN 2 ELSE 1)
        IN  IF n = 0 THEN out = None
            ELSE /\ IsSome(out)
                 /\ Unwrap(out)[1] = Take(name, split - 1)
                 /\ Unwrap(out)[2] = Drop(name, split)

\* ------------------------------------------------------------------ C28
\* C28: check_storage_space(required_mb) returns has_space = (available_mb >=
\* required_mb), shortfall_mb = max(0, required_mb - available_mb) and
\* required_mb as it was given, available_mb being the whole megabytes of the
\* available bytes; so has_space is false exactly when shortfall_mb > 0, and
\* shortfall_mb is a value of the width (nothing wraps around).
C28_StorageCheckArithmetic ==
    ReturnedFrom("check_storage_space") =>
        LET c == Unwrap(fcall)
            out == Unwrap(c.out)
            diff == c.required_mb - out.available_mb
        IN  /\ out.available_mb * Mebi <= c.available_bytes
            /\ c.available_bytes < (out.available_mb + 1) * Mebi
            /\ out.has_space = (out.available_mb >= c.required_mb)
            /\ out.shortfall_mb = (IF diff > 0 THEN diff ELSE 0)
            /\ out.required_mb = c.required_mb
            /\ (~out.has_space) = (out.shortfall_mb > 0)
            /\ out.shortfall_mb \in Word

\* the check has returned a shortfall of one megabyte, the disks being one
\* byte short of two megabytes
C28_Witness ==
    /\ ReturnedFrom("check_storage_space")
    /\ ~Unwrap(Unwrap(fcall).out).has_space
    /\ Unwrap(Unwrap(fcall).out).shortfall_mb = 1
    /\ Unwrap(fcall).available_bytes = 2 * Mebi - 1

C27_QuarantineEntriesStay ==
    [][\A name \in DOMAIN quarantine :
         /\ name \in DOMAIN quarantine'
         /\ quarantine'[name] = quarantine[name]
         /\ data'[quarantine[name]] = data[quarantine[name]]]_vars

\* ------------------------------------------------------------------ C29
\* the step removes the directory or the tokenizer of the model: of all the
\* operations only delete_model does
Deletes(model_id) ==
    model_id \in (dirs \ dirs') \cup (tokenizers \ tokenizers')

NewWith(id, S) == SelectSeq(NewEvents(id), LAMBDA e : e.status \in S)

\* C30: the events of a download with an expected hash whose stream finished
\* come in the order "downloading" events, one "verifying" event, the
\* terminal event: "verifying" is published once, by the step that synced
\* and closed the partial file at the end of the stream, before the digest
\* is computed and before any terminal event; no "downloading" event is
\* published after it; one terminal event at most follows it; and no
\* "verifying" event is published for a download without an expected hash.
C30_VerifyingBetweenProgressAndEnd ==
    [][\A id \in Ids :
         /\ Len(NewWith(id, {"verifying"})) > 0 =>
               /\ Len(NewWith(id, {"verifying"})) = 1
               /\ Len(Published(id, {"verifying"})) = 0
               /\ Len(Published(id, TerminalStatuses)) = 0
               /\ IsSome(tasks[id].expected_hash)
               /\ tasks[id].pc = "stream" /\ tasks[id].body = <<>>
               /\ tasks'[id].pc = "verify"
               /\ tasks'[id].file = None /\ tasks'[id].result = None
         /\ tasks[id].pc = "stream" /\ tasks'[id].pc = "verify" =>
               Len(NewWith(id, {"verifying"})) = 1
         /\ Len(NewWith(id, {"downloading"})) > 0 =>
               Len(Published(id, {"verifying"})) = 0
         /\ Len(Published(id, {"verifying"})) > 0 =>
               Len(Published(id, TerminalStatuses)) + Len(NewWith(id, TerminalStatuses)) <= 1
      ]_vars

\* ------------------------------------------------------------------ C31
\* C31: the cancellation signal is looked at once per chunk, before the
\* write: a task takes a chunk to the write only with the signal not set; a
\* task that receives a chunk with the signal set stops there and no file
\* changes; and a write that does not fail appends the whole chunk to the
\* file of the task, so cancellation never leaves a part of a chunk behind.
C31_CancellationBetweenChunks ==
    [][\A id \in Ids :
         LET t == tasks[id] IN
         /\ t.pc = "stream" /\ tasks'[id].pc = "write" =>
               /\ ~cancel_token[id]
               /\ tasks'[id].chunk /= <<>>
               /\ data' = data
         /\ t.pc = "stream" /\ t.body /= <<>> /\ cancel_token[id]
               /\ tasks'[id] /= t =>
               /\ tasks'[id].pc = "err"
               /\ data' = data /\ part' = part
         /\ t.pc = "write" /\ tasks'[id].pc = "stream" =>
               /\ tasks'[id].bytes_downloaded = t.bytes_downloaded + Len(t.chunk)
               /\ \A file \in Ids :
                     data'[file] = IF t.file = Some(file)
                                      /\ Linked(file, part, final, quarantine)
                                   THEN data[file] \o t.chunk ELSE data[file]
         /\ t.pc \in {"request", "stream"} /\ tasks'[id] /= t => data' = data
      ]_vars

\* C31 witness: the signal of a task was set after it had written a chunk to
\* the part file it created, and the stream holds another chunk for it
C31_Witness ==
    \E id \in Ids :
        /\ tasks[id].pc = "stream" /\ tasks[id].body /= <<>>
        /\ cancel_token[id]
        /\ part[tasks[id].model_id] = Some(id)
        /\ Len(data[id]) >= 1

\* ------------------------------------------------------------------ C32
\* C32: a task sends the Range header "bytes=K-" exactly when its offset K is
\* greater than 0; it goes on to the stream only with a response of a success
\* status (the whole file) or 206 (the file from K, and only if the header
\* was sent), the part file open; and on any other outcome of the request it
\* stops with no part file created and no file changed.
C32_RangeAndStatusBeforeOpen ==
    [][\A id \in Ids :
         LET t == tasks[id] IN
         t.pc = "request" /\ tasks'[id] /= t =>
           /\ IsSome(RangeHeader(t.offset)) <=> t.offset > 0
           /\ IsSome(RangeHeader(t.offset)) => Unwrap(RangeHeader(t.offset)) = t.offset
           /\ tasks'[id].pc \in {"stream", "err"}
           /\ tasks'[id].pc = "stream" =>
                 /\ \/ tasks'[id].body = Content
                    \/ /\ t.offset > 0
                       /\ tasks'[id].body = Drop(Content, t.offset)
                 /\ IsSome(part'[t.model_id])
                 /\ tasks'[id].file = part'[t.model_id]
                 /\ data' = data
           /\ tasks'[id].pc = "err" =>
                 /\ part' = part
                 /\ data' = data
      ]_vars

\* C32 witness: the request of the task of the latest download was refused:
\* the task has ended, the directory of the model is there and no part file
\* was created in it
C32_Witness ==
    \E id \in DOMAIN downloads :
        /\ tasks[id].pc = "err"
        /\ part[downloads[id].model_id] = None
        /\ downloads[id].model_id \in dirs
        /\ downloads[id].status = "Downloading"
        /\ nextId = id + 1

\* ------------------------------------------------------------------ C36
\* C36: once pause(id) or cancel(id) has set the cancellation signal of a
\* running task and returned, the task of id never renames the part file to
\* the final path and never publishes "completed" or "verified", also when
\* the stream ends without another chunk.
C36_SignalledTaskNeverSucceeds ==
    [][\A id \in Ids :
         cancel_token[id] /\ tasks'[id] /= tasks[id] =>
           /\ ~Succeeds(id)
           /\ final' = final
           /\ Len(NewWith(id, {"completed", "verified"})) = 0
      ]_vars

\* ------------------------------------------------------------------ C38
\* C38: a resume(id) that finds the record Paused and whose start fails (the
\* directory, the tokenizer fetch or the size probe) returns that error with
\* the old record removed and no record added: query(id) returns absent,
\* pause, resume and cancel of id fail with "Download not found", no task is
\* spawned, and every file is as it was.
C38_FailedResumeLosesRecord ==
    [][\A id \in Ids :
         /\ Called("resume", id)
         /\ IsSome(GetDownload(downloads, id))
         /\ downloads[id].status = "Paused"
         /\ ~Unwrap(reply').ok
         => /\ Unwrap(reply').error \in StartErrors
            /\ downloads' = RemoveDownload(downloads, id)
            /\ GetDownloadProgress(id)' = None
            /\ PauseResult(id)' = "Download not found"
            /\ ResumeResult(id)' = "Download not found"
            /\ CancelResult(id)' = "Download not found"
            /\ UNCHANGED <<tasks, nextId, cancel_token, part, final, quarantine,
                           data, events>>
      ]_vars

\* C38 witness: a resume failed on the request of the size probe; the record
\* is gone and the part file of the model still holds a byte
C38_Witness ==
    \E id \in Ids, m \in Models :
        /\ reply = Err("resume", Some(id), "HEAD request failed")
        /\ id \notin DOMAIN downloads
        /\ FileLength(part[m]) >= 1

C35_AbortStopsAtNextToken ==
    [][\A g \in Callers :
         LET c == inference.calls[g]
             d == inference'.calls[g]
         IN  /\ c.aborted /\ c.pc /= "idle" => d.tokens = c.tokens
             /\ c.pc = "check" /\ d /= c /\ inference.abort_flag =>
                   /\ d.tokens = c.tokens
                   /\ d.completes = c.completes + 1
                   /\ d.pc = "loaded"
             /\ c.pc = "loaded" /\ d.pc = "idle" =>
                   /\ c.completes = 1
                   /\ inference'.status = "Loaded"
                   /\ ~c.aborted => c.left = 0
             /\ c.pc = "reset" /\ d.pc = "status" => ~inference'.abort_flag
      ]_vars

\* ------------------------------------------------------------------ C37
\* the calls of resume(id) that returned Ok
ResumedOk(id) ==
    {c \in Callers : /\ callers[c].pc = "returned"
                     /\ callers[c].result = {Unwrap(Ok("resume", Some(id)))}}

\* C37: of the calls of resume(id) that run at once on a Paused id at most
\* one starts a new transfer: no two of them return Ok, and the one download
\* that was started never has two records in the registry.
C37_OneResumeWins ==
    /\ \A id \in ResumeIds : Cardinality(ResumedOk(id)) <= 1
    /\ Cardinality(DOMAIN downloads) <= 1

\* ------------------------------------------------------------------ C33
\* the call of list_quarantined_files that has returned, if any
Listed ==
    IF IsSome(fcall) THEN (IF Unwrap(fcall).fn = "list_quarantined_files"
                              /\ Unwrap(fcall).out /= None
                           THEN Some(Unwrap(fcall)) ELSE None)
    ELSE None

\* the name ends in suffix
EndsWith(name, suffix) == StripSuffix(name, suffix) /= name

\* the file is one to list: its name ends in ".corrupted" and the rest of it
\* parses into a model id and a timestamp
Listable(name) ==
    /\ EndsWith(name, Corrupted)
    /\ IsSome(ParseQuarantineFilename(StripSuffix(name, Corrupted)))

\* C33: list_quarantined_files returns one entry for exactly the files of the
\* quarantine directory whose name ends in ".corrupted" and whose stem
\* parses; the other files are skipped without error; a missing directory
\* gives the empty list; and every entry reports both hashes as "unknown".
C33_ListIsTheParsableCorruptedFiles ==
    IsSome(Listed) =>
        LET dir == Unwrap(Listed).dir
            out == Unwrap(Unwrap(Listed).out)
        IN  /\ ~IsSome(dir) => out = ResultOk({})
            /\ IsSome(dir) /\ Unwrap(dir).readable =>
                  /\ out.ok
                  /\ {e.file_path : e \in out.value}
                        = {n \in Unwrap(dir).names : Listable(n)}
                  /\ Cardinality(out.value)
                        = Cardinality({n \in Unwrap(dir).names : Listable(n)})
                  /\ \A e \in out.value :
                        /\ e.expected_hash = "unknown" /\ e.actual_hash = "unknown"
                        /\ <<e.model_id, e.timestamp>>
                             = Unwrap(ParseQuarantineFilename(StripSuffix(e.file_path, Corrupted)))

\* C33 witness: a directory of a quarantined file and a .corrupted file whose
\* name does not parse was listed, and the list holds one entry
C33_Witness ==
    /\ IsSome(Listed)
    /\ IsSome(Unwrap(Listed).dir)
    /\ (<<"m">> \o Corrupted) \in Unwrap(Unwrap(Listed).dir).names
    /\ Cardinality(Unwrap(Unwrap(Listed).dir).names) = 2
    /\ Unwrap(Unwrap(Listed).out).ok
    /\ Cardinality(Unwrap(Unwrap(Listed).out).value) = 1

\* ------------------------------------------------------------------ C40
\* C40: a quarantine file the orchestrator named {model_id}_{timestamp}
\* .gguf.corrupted, the model id not empty and the timestamp of the form
\* YYYYMMDD_HHMMSS, is listed with that model id and that timestamp, and
\* with the name without ".corrupted" as id.
C40_QuarantineNameRoundTrip ==
    IsSome(Listed) =>
        LET dir == Unwrap(Listed).dir
            out == Unwrap(Unwrap(Listed).out)
        IN  IsSome(dir) /\ Unwrap(dir).readable =>
              \A m \in ModelIds, t \in Timestamps :
                  QuarantineFilename(m, t) \in Unwrap(dir).names =>
                     \E e \in out.value :
                         /\ e.file_path = QuarantineFilename(m, t)
                         /\ e.model_id = m
                         /\ e.timestamp = t
                         /\ e.id = m \o <<"_">> \o t \o Gguf
                         /\ e.id \o Corrupted = e.file_path

\* C40 witness: the quarantine file of a model whose id holds an underscore
\* between two letters was listed under that id
C40_Witness ==
    /\ IsSome(Listed)
    /\ Unwrap(Unwrap(Listed).out).ok
    /\ \E e \in Unwrap(Unwrap(Listed).out).value :
          /\ e.model_id = <<"m", "_", "m">>
          /\ e.timestamp \in Timestamps

\* ------------------------------------------------------------------ C34
\* a readable file that holds bytes
ReadablePath(bytes) ==
    [metadata |-> None, open |-> None, read |-> None, bytes |-> bytes]

\* C34: on every file and every expected hash, whatever the size of the
\* file, the reads the file is hashed in and the progress reported, each of
\* compute_checksum, compute_checksum_with_progress, verify_integrity,
\* verify_integrity_with_progress and verify_with_progress returns the digest
\* compute_checksum gives for the file, and the verifying ones the verified
\* flag verify_integrity gives.
C34_DigestPathsAgree ==
    IsSome(fcall) =>
      LET c == Unwrap(fcall) IN
      c.fn \in DigestFns /\ c.pc = "returned" =>
        /\ Unwrap(c.out).computed_hash = ComputeChecksum(ReadablePath(c.bytes)).value
        /\ c.fn \in VerifyFns =>
              Unwrap(c.out).verified
                = Some(VerifyIntegrityAt(ReadablePath(c.bytes), c.expected_hash).value.verified)

\* C34 witness: verify_with_progress hashed a file at the threshold in two
\* reads, reported progress, and found the hash, given in upper case, to match
C34_Witness ==
    /\ IsSome(fcall)
    /\ Unwrap(fcall).fn = "verify_with_progress"
    /\ Unwrap(fcall).pc = "returned"
    /\ Unwrap(fcall).file_size = ThresholdMiB
    /\ Len(Unwrap(fcall).bytes) = 2
    /\ Unwrap(fcall).sent = 2
    /\ Unwrap(fcall).expected_hash /= ToLowercase(Unwrap(fcall).expected_hash)
    /\ Unwrap(Unwrap(fcall).out).verified = Some(TRUE)

====
